---- MODULE Spec2Model ----
(***************************************************************************)
(* A model of labscript.py: the device tree, the per-output instruction   *)
(* model (Output.add_instruction), start(), wait() and stop(), and the    *)
(* compile pass: the part that rewrites the instructions (do_checks,      *)
(* offset_instructions_from_trigger, get_change_times) and the            *)
(* pseudoclock scheduler (collect_change_times, expand_change_times).     *)
(*                                                                         *)
(* Time.  Every time is an integer number of thirds of 1e-10 s.  The code *)
(* rounds user times with round(t, 10); a time that is already on the     *)
(* 1e-10 s grid is a multiple of 3 here, and the two other residues are   *)
(* the user values that round down and up (no ties).  A clock limit is    *)
(* held as its period 1/clock_limit and a ramp's clock rate as 1/rate,    *)
(* in the same unit (0 for a rate of 0).                                  *)
(***************************************************************************)
EXTENDS Integers, Sequences, FiniteSets, TLC

VARIABLES
    devs,                 \* the device objects, by identity (creation order)
    inventory,            \* compiler.inventory
    registry,             \* the device names put into _builtins_dict
    start_called,         \* compiler.start_called
    all_pseudoclocks,     \* compiler.all_pseudoclocks
    master_pseudoclock,   \* compiler.master_pseudoclock
    trigger_duration,     \* compiler.trigger_duration
    wait_delay,           \* compiler.wait_delay
    shot_properties,      \* compiler.shot_properties (set or not)
    compilation_data,     \* whether the shot file holds its devices group
    wait_table,           \* compiler.wait_table, in insertion order
    initial_trigger_time, \* PseudoclockDevice.initial_trigger_time
    trigger_times,        \* PseudoclockDevice.trigger_times
    stop_time,            \* PseudoclockDevice.stop_time (<<>> while unset)
    instructions,         \* Output.instructions, in insertion order
    ramp_limits,          \* Output.ramp_limits
    triggerings,          \* Trigger.triggerings
    requested,            \* TriggerableDevice.__triggers
    clock,                \* Pseudoclock.clock, once generate_clock set it
    times,                \* Pseudoclock.times, once generate_clock set it
    output_times,         \* Output.times, once get_change_times set it
    raw_output,           \* Output.raw_output, once expand_timeseries set it
    op,                   \* the entry point called last
    args,                 \* the arguments of that call (<<>>: not kept)
    err,                  \* its outcome: "ok" or the error raised
    warned,               \* whether it wrote the overwrite warning
    ret,                  \* the value it returned (a device, for a lookup)
    before,               \* the state the last compile pass started from
    calls,                \* number of add_instruction and wait calls made
    starts,               \* number of start() calls made
    stops                 \* number of stop() calls made

treeVars == <<devs, inventory, registry>>
compilerVars == <<start_called, all_pseudoclocks, master_pseudoclock,
                  trigger_duration, wait_delay, shot_properties,
                  compilation_data, wait_table>>
clockVars == <<initial_trigger_time, trigger_times, stop_time>>
outputVars == <<instructions, ramp_limits, triggerings, requested>>
programVars == <<clock, times, output_times, raw_output>>
callVars == <<op, args, err, warned, ret, before, calls, starts, stops>>
vars == <<treeVars, compilerVars, clockVars, outputVars, programVars,
          callVars>>

-----------------------------------------------------------------------------
(* Bounds of the model. *)

MaxCalls == 3
MaxStarts == 1
MaxStops == 1
MaxDevices == 3
MaxAdds == 1
MaxSecondaries == 2
MaxStatements == 3
MaxRestarts == 1

-----------------------------------------------------------------------------
(* Python helpers. *)

\* None, as a device reference.
NoDevice == 0

Max(S) == CHOOSE x \in S : \A y \in S : y <= x
Min(S) == CHOOSE x \in S : \A y \in S : x <= y

\* max_or_zero([...]) as the code calls it, with one list argument.
max_or_zero(S) == IF S = {} THEN 0 ELSE Max(S)

Range(s) == {s[i] : i \in DOMAIN s}

abs(n) == IF n < 0 THEN -n ELSE n

\* round(t, 10): the nearest multiple of 3 (of 1e-10 s).
round10(t) == 3 * ((2 * t + 3) \div 6)

\* numpy's round(): to the nearest integer, a tie to the even one.
np_round(n, d) ==
    LET q == n \div d
        r == n % d
    IN IF 2 * r < d THEN q
       ELSE IF 2 * r > d THEN q + 1
       ELSE IF q % 2 = 0 THEN q ELSE q + 1

-----------------------------------------------------------------------------
(* The class hierarchy and the device objects. *)

\* The classes a concrete kind is an instance of.
Supers(kind) ==
    CASE kind = "Device" -> {"Device"}
      [] kind = "IntermediateDevice" -> {"Device", "IntermediateDevice"}
      [] kind = "ClockLine" -> {"Device", "ClockLine"}
      [] kind = "Pseudoclock" -> {"Device", "Pseudoclock"}
      [] kind = "TriggerableDevice" -> {"Device", "TriggerableDevice"}
      [] kind = "PseudoclockDevice" ->
            {"Device", "TriggerableDevice", "PseudoclockDevice"}
      [] kind = "AnalogOut" ->
            {"Device", "Output", "AnalogQuantity", "AnalogOut"}
      [] kind = "DigitalOut" ->
            {"Device", "Output", "DigitalQuantity", "DigitalOut"}
      [] kind = "Trigger" ->
            {"Device", "Output", "DigitalQuantity", "DigitalOut", "Trigger"}

isinstance(d, class) == class \in Supers(devs[d].kind)

\* The allowed_children class attribute of each kind.
allowed_children(kind) ==
    CASE kind = "ClockLine" -> {"IntermediateDevice"}
      [] kind = "Pseudoclock" -> {"ClockLine"}
      [] kind = "PseudoclockDevice" -> {"Pseudoclock"}
      [] kind = "Trigger" -> {"TriggerableDevice"}
      [] OTHER -> {"Device"}

Devices == DOMAIN devs
Outputs == {d \in Devices : isinstance(d, "Output")}
PseudoclockDevices == {d \in Devices : isinstance(d, "PseudoclockDevice")}
Triggers == {d \in Devices : isinstance(d, "Trigger")}
TriggerableDevices == {d \in Devices : isinstance(d, "TriggerableDevice")}

\* A device object with the attributes the model reads.  clock_period is
\* 1/clock_limit (0 where the class defines none); limits is <<>> for None.
DeviceObject(kind, name, parent, connection) ==
    [kind |-> kind, name |-> name, parent_device |-> parent,
     connection |-> connection, child_devices |-> <<>>,
     clock_period |-> 0, clock_resolution |-> 0, trigger_delay |-> 0,
     trigger_minimum_duration |-> 0, minimum_recovery_time |-> 0,
     wait_delay |-> 0,
     ramping_allowed |-> TRUE, limits |-> <<>>, calibrated |-> FALSE,
     default_value |-> 0]

is_master_pseudoclock(p) == devs[p].parent_device = NoDevice

RECURSIVE walk_to_pseudoclock_device(_)
walk_to_pseudoclock_device(parent) ==
    IF parent # NoDevice /\ ~isinstance(parent, "PseudoclockDevice")
    THEN walk_to_pseudoclock_device(devs[parent].parent_device)
    ELSE parent

\* Device.pseudoclock_device: the device itself, or the first
\* PseudoclockDevice up the parent links, or None.
pseudoclock_device(d) ==
    IF isinstance(d, "PseudoclockDevice") THEN d
    ELSE walk_to_pseudoclock_device(devs[d].parent_device)

RECURSIVE walk_to_clock_line(_)
walk_to_clock_line(parent) ==
    IF parent = NoDevice THEN NoDevice
    ELSE IF isinstance(parent, "ClockLine") THEN parent
    ELSE walk_to_clock_line(devs[parent].parent_device)

\* Device.parent_clock_line; NoDevice stands for the LabscriptError raised
\* when the walk runs off the top of the tree.
parent_clock_line(d) ==
    IF isinstance(d, "ClockLine") THEN d
    ELSE walk_to_clock_line(devs[d].parent_device)

\* ClockLine.clock_limit and Pseudoclock/PseudoclockDevice.clock_limit, as
\* a period: the line's own limit, else its pseudoclock's.
clock_period(d) ==
    IF isinstance(d, "ClockLine") /\ devs[d].clock_period = 0
    THEN devs[devs[d].parent_device].clock_period
    ELSE devs[d].clock_period

\* Output.clock_limit, as a period.
output_clock_period(o) == clock_period(parent_clock_line(o))

\* Device.quantise_to_pseudoclock, of one time.
quantise_to_pseudoclock(d, t) ==
    LET res == devs[pseudoclock_device(d)].clock_resolution
    IN np_round(t, res) * res

\* Device.get_all_outputs, in child order.
RECURSIVE get_all_outputs(_)
RECURSIVE outputs_of_children(_)
outputs_of_children(children) ==
    IF children = <<>> THEN <<>>
    ELSE LET device == Head(children)
         IN (IF isinstance(device, "Output") THEN <<device>>
             ELSE get_all_outputs(device))
            \o outputs_of_children(Tail(children))
get_all_outputs(d) == outputs_of_children(devs[d].child_devices)

-----------------------------------------------------------------------------
(* The mutable state as one value, so that a call can be composed of the  *)
(* calls it makes.  err is "ok" until a call raises.                       *)

World ==
    [start_called |-> start_called, all_pseudoclocks |-> all_pseudoclocks,
     master_pseudoclock |-> master_pseudoclock,
     trigger_duration |-> trigger_duration, wait_delay |-> wait_delay,
     shot_properties |-> shot_properties,
     compilation_data |-> compilation_data, wait_table |-> wait_table,
     initial_trigger_time |-> initial_trigger_time,
     trigger_times |-> trigger_times, stop_time |-> stop_time,
     instructions |-> instructions, ramp_limits |-> ramp_limits,
     triggerings |-> triggerings, requested |-> requested,
     clock |-> clock, times |-> times, output_times |-> output_times,
     raw_output |-> raw_output,
     warned |-> FALSE, err |-> "ok"]

Raise(w, kind) == [w EXCEPT !.err = kind]

\* The statements after a call: an exception of the call propagates,
\* otherwise they run in the state the call left.
Then(w, rest(_)) == IF w.err # "ok" THEN w ELSE rest(w)

\* The state a call leaves behind.
Commit(w) ==
    /\ start_called' = w.start_called
    /\ all_pseudoclocks' = w.all_pseudoclocks
    /\ master_pseudoclock' = w.master_pseudoclock
    /\ trigger_duration' = w.trigger_duration
    /\ wait_delay' = w.wait_delay
    /\ shot_properties' = w.shot_properties
    /\ compilation_data' = w.compilation_data
    /\ wait_table' = w.wait_table
    /\ initial_trigger_time' = w.initial_trigger_time
    /\ trigger_times' = w.trigger_times
    /\ stop_time' = w.stop_time
    /\ instructions' = w.instructions
    /\ ramp_limits' = w.ramp_limits
    /\ triggerings' = w.triggerings
    /\ requested' = w.requested
    /\ clock' = w.clock
    /\ times' = w.times
    /\ output_times' = w.output_times
    /\ raw_output' = w.raw_output
    /\ warned' = w.warned
    /\ err' = w.err

-----------------------------------------------------------------------------
(* Instructions. *)

\* A scalar instruction (a base-unit value) and a ramp record.  value of a
\* ramp is its function evaluated at end time - initial time.
Scalar(v) ==
    [ramp |-> FALSE, value |-> v, initial |-> 0, end |-> 0, rate |-> 0,
     units |-> "None"]
Ramp(initial, end, rate, final, units) ==
    [ramp |-> TRUE, value |-> final, initial |-> initial, end |-> end,
     rate |-> rate, units |-> units]

\* dict operations on an insertion-ordered sequence of [t, ins] items.
Keys(dict) == {dict[i].t : i \in DOMAIN dict}
Get(dict, t) == dict[CHOOSE i \in DOMAIN dict : dict[i].t = t].ins
Put_appending(dict, t, ins) == Append(dict, [t |-> t, ins |-> ins])
Put(dict, t, ins) ==
    IF t \in Keys(dict)
    THEN [i \in DOMAIN dict |->
            IF dict[i].t = t THEN [t |-> t, ins |-> ins] ELSE dict[i]]
    ELSE Append(dict, [t |-> t, ins |-> ins])

\* t0 of a device of the master pseudoclock, whatever the device.
t0_of_master(w, d) == 0

\* Device.t0
t0(w, d) ==
    LET parent == pseudoclock_device(d)
    IN IF parent = NoDevice \/ is_master_pseudoclock(parent) THEN 0
       ELSE round10(w.trigger_times[parent][1] + devs[parent].trigger_delay)

\* Output.trigger_delay
output_trigger_delay(o) ==
    LET parent == pseudoclock_device(o)
    IN IF is_master_pseudoclock(parent) THEN 0
       ELSE devs[parent].trigger_delay

\* The calibration bound to a calibrated output: one derived unit, "V".
derived_units == {"V"}
to_base(units, value) == value + 1

\* Output.apply_calibration: the error raised ("ok" if none) and the value.
apply_calibration(o, value, units) ==
    IF ~devs[o].calibrated THEN [err |-> "NoCalibration", value |-> value]
    ELSE IF units \notin derived_units
    THEN [err |-> "UnknownUnits", value |-> value]
    ELSE [err |-> "ok", value |-> to_base(units, value)]

\* The test of one existing ramp interval against a new ramp.
ramps_collide(start, end, time, end_time) ==
    (start < time /\ time < end) \/ (start < end_time /\ end_time < end)

\* The range test with the limits themselves excluded.
outside_limits_or_on(limits, value) ==
    limits # <<>> /\ (value <= limits[1] \/ value >= limits[2])

\* The range test of a scalar against the output's limits.
outside_limits(limits, value) ==
    limits # <<>> /\ (value < limits[1] \/ value > limits[2])

\* add_instruction without its checks: the instruction is stored as given.
add_instruction_unchecked(w, o, time0, instruction0, units) ==
    [w EXCEPT !.instructions[o] = Put(@, round10(time0), instruction0)]

\* Output.add_instruction
add_instruction(w, o, time0, instruction0, units) ==
    IF ~w.start_called THEN Raise(w, "NotStarted")
    ELSE
    LET time == round10(time0)
        instruction ==
            IF instruction0.ramp
            THEN [instruction0 EXCEPT !.end = round10(@),
                                     !.initial = round10(@)]
            ELSE instruction0
        w0 == [w EXCEPT !.warned = @ \/ time \in Keys(w.instructions[o])]
        colliding ==
            {i \in DOMAIN w.ramp_limits[o] :
                ramps_collide(w.ramp_limits[o][i][1], w.ramp_limits[o][i][2],
                              time, instruction.end)}
    IN
    IF time < t0(w, o) THEN Raise(w, "TooEarly")
    ELSE IF instruction.ramp THEN
        IF parent_clock_line(o) = NoDevice THEN Raise(w0, "NoClockLine")
        ELSE IF ~devs[parent_clock_line(o)].ramping_allowed
        THEN Raise(w0, "NoRamping")
        ELSE IF colliding # {}
        THEN \* the message quotes the instruction stored at the start of
             \* the first colliding interval
             IF w.ramp_limits[o][Min(colliding)][1] \in Keys(w.instructions[o])
             THEN Raise(w0, "RampOverlap")
             ELSE Raise(w0, "KeyError")
        ELSE
        LET w1 == [w0 EXCEPT !.ramp_limits[o] =
                                 Append(@, <<time, instruction.end>>)]
        IN IF time > instruction.end THEN Raise(w1, "NegativeDuration")
           ELSE IF instruction.rate = 0 THEN Raise(w1, "BadRate")
           ELSE [w1 EXCEPT !.instructions[o] = Put(@, time, instruction)]
    ELSE
        LET converted ==
                IF units # "None"
                THEN apply_calibration(o, instruction.value, units)
                ELSE [err |-> "ok", value |-> instruction.value]
        IN IF converted.err # "ok" THEN Raise(w0, converted.err)
           ELSE IF outside_limits(devs[o].limits, converted.value)
           THEN Raise(w0, "OutOfRange")
           ELSE [w0 EXCEPT !.instructions[o] =
                               Put(@, time, Scalar(converted.value))]

-----------------------------------------------------------------------------
(* Triggers. *)

\* DigitalQuantity.go_high / go_low, and Trigger.enable / disable of a
\* rising-edge trigger.
go_high(w, o, t) == add_instruction(w, o, t, Scalar(1), "None")
go_low(w, o, t) == add_instruction(w, o, t, Scalar(0), "None")

\* The overlap test of Trigger.trigger against one earlier triggering.
triggerings_overlap(start, end, other_start, other_end) ==
    ~(end < other_start \/ start > other_end)

\* Trigger.trigger
Trigger_trigger(w, tr, t, duration) ==
    IF ~(duration > 0) THEN Raise(w, "AssertionError")
    ELSE
    Then(IF t # t0(w, tr) /\ t0(w, tr) \notin Keys(w.instructions[tr])
         THEN go_low(w, tr, t0(w, tr))
         ELSE w,
         LAMBDA w1 :
    IF \E i \in DOMAIN w1.triggerings[tr] :
            triggerings_overlap(t, t + duration,
                                w1.triggerings[tr][i][1],
                                w1.triggerings[tr][i][1]
                                    + w1.triggerings[tr][i][2])
    THEN Raise(w1, "TriggerOverlap")
    ELSE
    Then(go_high(w1, tr, t), LAMBDA w2 :
    Then(go_low(w2, tr, round10(t + duration)), LAMBDA w3 :
    [w3 EXCEPT !.triggerings[tr] = Append(@, <<t, duration>>)])))

\* The recovery test of TriggerableDevice.trigger against one earlier
\* trigger of the device.
triggers_too_close(start, end, other_start, other_end, recovery) ==
    abs(other_start - end) < recovery \/ abs(other_end - start) < recovery

\* TriggerableDevice.trigger, were the trigger device asked for a pulse on
\* every request.
TriggerableDevice_trigger_every_request(w, d, t, duration) ==
    LET trigger_device == devs[d].parent_device
    IN Then(Trigger_trigger(w, trigger_device, t, duration),
            LAMBDA w1 :
                IF \E i \in DOMAIN w1.requested[d] :
                      triggers_too_close(
                          t, t + duration, w1.requested[d][i][1],
                          w1.requested[d][i][1] + w1.requested[d][i][2],
                          devs[d].minimum_recovery_time)
                THEN Raise(w1, "ValueError")
                ELSE [w1 EXCEPT !.requested[d] = Append(@, <<t, duration>>)])

\* TriggerableDevice.trigger
TriggerableDevice_trigger(w, d, t, duration) ==
    LET trigger_device == devs[d].parent_device
        already_requested ==
            \E other \in Range(devs[trigger_device].child_devices) :
                other # d /\ <<t, duration>> \in Range(w.requested[other])
    IN Then(IF already_requested THEN w
            ELSE Trigger_trigger(w, trigger_device, t, duration),
            LAMBDA w1 :
                IF \E i \in DOMAIN w1.requested[d] :
                      triggers_too_close(
                          t, t + duration, w1.requested[d][i][1],
                          w1.requested[d][i][1] + w1.requested[d][i][2],
                          devs[d].minimum_recovery_time)
                THEN Raise(w1, "ValueError")
                ELSE [w1 EXCEPT !.requested[d] = Append(@, <<t, duration>>)])

\* PseudoclockDevice.trigger, were the trigger time recorded and the
\* trigger line of a secondary pseudoclock device not pulsed.
PseudoclockDevice_trigger_unpulsed(w, p, initial, t0arg, duration) ==
    [w EXCEPT !.trigger_times[p] =
        Append(@, round10(IF initial THEN w.initial_trigger_time[p]
                          ELSE t0arg))]

\* PseudoclockDevice.trigger(t, duration, wait_delay = 0); initial says
\* that t is the string 'initial'.  No wait monitor is declared.
PseudoclockDevice_trigger(w, p, initial, t0arg, duration) ==
    LET t == round10(IF initial THEN w.initial_trigger_time[p] ELSE t0arg)
    IN IF is_master_pseudoclock(p)
       THEN [w EXCEPT !.trigger_times[p] = Append(@, t)]
       ELSE Then(TriggerableDevice_trigger(w, p, t, duration),
                 LAMBDA w1 :
                     [w1 EXCEPT
                         !.trigger_times[p] = Append(@, round10(t + 0))])

\* trigger_all_pseudoclocks: the loop over compiler.all_pseudoclocks.
RECURSIVE trigger_each(_, _, _, _)
trigger_each(w, pseudoclocks, initial, t) ==
    IF pseudoclocks = <<>> \/ w.err # "ok" THEN w
    ELSE trigger_each(
            PseudoclockDevice_trigger(w, Head(pseudoclocks), initial, t,
                                      w.trigger_duration),
            Tail(pseudoclocks), initial, t)

\* compiler.all_pseudoclocks is None until start() sets it, and the delay
\* returned is computed from compiler.master_pseudoclock.
trigger_all_pseudoclocks(w, initial, t) ==
    IF ~w.start_called THEN Raise(w, "TypeError")
    ELSE Then(trigger_each(w, w.all_pseudoclocks, initial, t), LAMBDA w1 :
              IF w1.master_pseudoclock = NoDevice
              THEN Raise(w1, "AttributeError")
              ELSE w1)

\* wait() without the check of the label.
wait_any_label(w, label, t, timeout) ==
    IF label = "" THEN Raise(w, "NoWaitName")
    ELSE
    Then(trigger_all_pseudoclocks(w, FALSE, t), LAMBDA w1 :
    IF t \in Keys(w1.wait_table) THEN Raise(w1, "TimeClash")
    ELSE [w1 EXCEPT !.wait_table =
             Put(@, t, [label |-> label, timeout |-> timeout])])

\* wait(label, t, timeout).  The wait table is keyed by t as it was passed.
wait(w, label, t, timeout) ==
    IF label = "" THEN Raise(w, "NoWaitName")
    ELSE
    Then(trigger_all_pseudoclocks(w, FALSE, t), LAMBDA w1 :
    IF t \in Keys(w1.wait_table) THEN Raise(w1, "TimeClash")
    ELSE IF \E i \in DOMAIN w1.wait_table :
               w1.wait_table[i].ins.label = label
    THEN Raise(w1, "NameClash")
    ELSE [w1 EXCEPT !.wait_table =
             Put(@, t, [label |-> label, timeout |-> timeout])])

\* PseudoclockDevice.set_initial_trigger_time
set_initial_trigger_time(w, p, t) ==
    IF w.start_called THEN Raise(w, "AlreadyStarted")
    ELSE IF is_master_pseudoclock(p) THEN Raise(w, "MasterInitialTime")
    ELSE [w EXCEPT !.initial_trigger_time[p] = round10(t)]

-----------------------------------------------------------------------------
(* start() *)

SelectIn(seq, S) == SelectSeq(seq, LAMBDA d : d \in S)

start(w) ==
    LET w1 == [w EXCEPT !.start_called = TRUE]
        pseudoclocks == SelectIn(inventory, PseudoclockDevices)
        w2 == [w1 EXCEPT !.all_pseudoclocks = pseudoclocks]
        toplevel_devices ==
            {d \in Range(inventory) : devs[d].parent_device = NoDevice}
        master_pseudoclocks ==
            {p \in Range(pseudoclocks) : is_master_pseudoclock(p)}
        secondaries == Range(pseudoclocks) \ master_pseudoclocks
    IN
    IF Cardinality(master_pseudoclocks) > 1 THEN Raise(w2, "MultipleMasters")
    ELSE IF toplevel_devices = {} THEN Raise(w2, "NoToplevelDevices")
    ELSE IF pseudoclocks = <<>>
    THEN [w2 EXCEPT !.master_pseudoclock = NoDevice,
                    !.trigger_duration = 0, !.wait_delay = 0]
    ELSE IF master_pseudoclocks = {} THEN Raise(w2, "ValueError")
    ELSE
    LET master == CHOOSE p \in master_pseudoclocks : TRUE
        clocklines ==
            {cl \in Devices :
                \E pc \in Range(devs[master].child_devices) :
                    cl \in Range(devs[pc].child_devices)}
        \* the longest period among the trigger outputs of the secondary
        \* pseudoclocks, the master and the master's clocklines
        periods ==
            {output_clock_period(devs[p].parent_device) : p \in secondaries}
            \cup {clock_period(master)}
            \cup {clock_period(cl) : cl \in clocklines}
        minimum_durations ==
            {devs[p].trigger_minimum_duration : p \in secondaries}
    IN
    IF clocklines = {} THEN
        Raise([w2 EXCEPT !.master_pseudoclock = master,
                         !.trigger_duration =
                             max_or_zero(minimum_durations)],
              "ValueError")
    ELSE
    trigger_all_pseudoclocks(
        [w2 EXCEPT
            !.master_pseudoclock = master,
            !.trigger_duration =
                Max({2 * Max(periods), max_or_zero(minimum_durations)})
                    + 2 * devs[master].clock_resolution,
            !.wait_delay =
                max_or_zero({devs[p].wait_delay : p \in secondaries})],
        TRUE, 0)

-----------------------------------------------------------------------------
(* The compile pass. *)

\* No instruction inserted after a ramp.
hold_after_ramps_never(w, o, items) == w

\* Output.do_checks, first part: the instructions it inserts.  The values
\* of the ramps are taken from the instructions as they were when the loop
\* started; the keys are looked up as the loop goes.
RECURSIVE hold_after_ramps(_, _, _)
hold_after_ramps(w, o, items) ==
    IF items = <<>> \/ w.err # "ok" THEN w
    ELSE LET instruction == Head(items).ins
         IN hold_after_ramps(
                IF instruction.ramp
                   /\ instruction.end \notin Keys(w.instructions[o])
                THEN add_instruction(w, o, instruction.end,
                                     Scalar(instruction.value),
                                     instruction.units)
                ELSE w,
                o, Tail(items))

\* A ramp that spans a trigger time or starts or ends at it.
ramp_touches_trigger(instruction, trigger_time) ==
    /\ instruction.ramp
    /\ instruction.initial <= trigger_time
    /\ instruction.end >= trigger_time

\* The two trigger checks of Output.do_checks that raise.
ramp_spans_trigger(instruction, trigger_time) ==
    /\ instruction.ramp
    /\ instruction.initial < trigger_time
    /\ instruction.end > trigger_time

\* No check of the delay after a trigger.
too_soon_after_trigger_never(o, t, trigger_time) == FALSE

too_soon_after_trigger(o, t, trigger_time) ==
    /\ round10(trigger_time) < round10(t)
    /\ round10(t) < round10(trigger_time + output_trigger_delay(o))

\* Output.do_checks.  The check for instructions too soon before a trigger
\* (lines 1572-1575) builds a message and raises nothing.
do_checks(w, o, trig_times) ==
    LET default == Scalar(devs[o].default_value)
    IN
    Then(IF w.instructions[o] = <<>>
         THEN add_instruction(w, o, t0(w, o), default, "None")
         ELSE w,
         LAMBDA w1 :
    Then(IF t0(w1, o) \notin Keys(w1.instructions[o])
         THEN add_instruction(w1, o, t0(w1, o), default, "None")
         ELSE w1,
         LAMBDA w2 :
    Then(hold_after_ramps(w2, o, w2.instructions[o]), LAMBDA w3 :
    LET items == w3.instructions[o]
        n == Len(items)
        \* the (trigger time, instruction) pairs in the order of the loops
        raises(k) ==
            LET trigger_time == trig_times[((k - 1) \div n) + 1]
                item == items[((k - 1) % n) + 1]
            IN \/ ramp_spans_trigger(item.ins, trigger_time)
               \/ too_soon_after_trigger(o, item.t, trigger_time)
        pairs == 1 .. (Len(trig_times) * n)
    IN
    IF \E k \in pairs : raises(k)
    THEN LET k == Min({j \in pairs : raises(j)})
         IN IF ramp_spans_trigger(items[((k - 1) % n) + 1].ins,
                                  trig_times[((k - 1) \div n) + 1])
            THEN Raise(w3, "RampAcrossTrigger")
            ELSE Raise(w3, "TooSoonAfterTrigger")
    ELSE w3)))

\* PseudoclockDevice.do_checks
RECURSIVE PseudoclockDevice_do_checks(_, _, _)
PseudoclockDevice_do_checks(w, p, outputs) ==
    IF outputs = <<>> \/ w.err # "ok" THEN w
    ELSE PseudoclockDevice_do_checks(
            do_checks(w, Head(outputs), w.trigger_times[p]), p, Tail(outputs))

\* No offset at all.
trigger_offset_none(o, trig_times, t) == 0

\* The offset at t, were a trigger at t itself counted as prior to it.
trigger_offset_counting_at(o, trig_times, t) ==
    LET n_triggers_prior ==
            Cardinality({i \in DOMAIN trig_times : trig_times[i] <= t})
    IN round10(output_trigger_delay(o) * n_triggers_prior + trig_times[1])

\* The cumulative offset of Output.offset_instructions_from_trigger at t.
trigger_offset(o, trig_times, t) ==
    LET n_triggers_prior ==
            Cardinality({i \in DOMAIN trig_times : trig_times[i] < t})
    IN round10(output_trigger_delay(o) * n_triggers_prior + trig_times[1])

\* The new instructions dict, filled in the order of the old one.
RECURSIVE offset_items(_, _, _, _)
offset_items(o, trig_times, items, offset_instructions) ==
    IF items = <<>> THEN offset_instructions
    ELSE
    LET t == Head(items).t
        instruction == Head(items).ins
        offset == trigger_offset(o, trig_times, t)
        offset_instruction ==
            IF instruction.ramp
            THEN [instruction EXCEPT
                    !.end = quantise_to_pseudoclock(o, round10(@ - offset)),
                    !.initial =
                        quantise_to_pseudoclock(o, round10(@ - offset))]
            ELSE instruction
    IN offset_items(o, trig_times, Tail(items),
                    Put(offset_instructions,
                        quantise_to_pseudoclock(o, round10(t - offset)),
                        offset_instruction))

\* Output.offset_instructions_from_trigger
offset_instructions_from_trigger(w, o, trig_times) ==
    IF trig_times = <<>>
       /\ (w.instructions[o] # <<>> \/ w.ramp_limits[o] # <<>>)
    THEN Raise(w, "IndexError")
    ELSE
    [w EXCEPT
        !.instructions[o] = offset_items(o, trig_times, @, <<>>),
        !.ramp_limits[o] =
            [i \in DOMAIN @ |->
                LET offset == trigger_offset(o, trig_times, @[i][1])
                IN <<quantise_to_pseudoclock(o, round10(@[i][1] - offset)),
                     quantise_to_pseudoclock(o, round10(@[i][2] - offset))>>]]

RECURSIVE offset_outputs(_, _, _)
offset_outputs(w, p, outputs) ==
    IF outputs = <<>> \/ w.err # "ok" THEN w
    ELSE offset_outputs(
            offset_instructions_from_trigger(w, Head(outputs),
                                             w.trigger_times[p]),
            p, Tail(outputs))

\* PseudoclockDevice.offset_instructions_from_trigger, were the stop time
\* of a secondary pseudoclock device quantised and no more.
PseudoclockDevice_offset_keeping_stop_time(w, p, outputs) ==
    Then(offset_outputs(w, p, outputs), LAMBDA w1 :
    Then(IF is_master_pseudoclock(p) THEN w1
         ELSE IF w1.trigger_times[p] = <<>> THEN Raise(w1, "IndexError")
         ELSE [w1 EXCEPT
                 !.trigger_times[p] =
                     [i \in DOMAIN @ |->
                         round10(@[i] - @[1]
                                 - (i - 1) * devs[p].trigger_delay)]],
         LAMBDA w2 :
    [w2 EXCEPT
        !.trigger_times[p] =
            [i \in DOMAIN @ |-> quantise_to_pseudoclock(p, @[i])],
        !.stop_time[p] = <<quantise_to_pseudoclock(p, @[1])>>]))

\* PseudoclockDevice.offset_instructions_from_trigger
PseudoclockDevice_offset_instructions_from_trigger(w, p, outputs) ==
    Then(offset_outputs(w, p, outputs), LAMBDA w1 :
    Then(IF is_master_pseudoclock(p) THEN w1
         ELSE IF w1.trigger_times[p] = <<>> THEN Raise(w1, "IndexError")
         ELSE [w1 EXCEPT
                 !.stop_time[p] =
                     <<round10(@[1] - w1.trigger_times[p][1]
                               - devs[p].trigger_delay
                                   * Len(w1.trigger_times[p]))>>,
                 !.trigger_times[p] =
                     [i \in DOMAIN @ |->
                         round10(@[i] - @[1]
                                 - (i - 1) * devs[p].trigger_delay)]],
         LAMBDA w2 :
    [w2 EXCEPT
        !.trigger_times[p] =
            [i \in DOMAIN @ |-> quantise_to_pseudoclock(p, @[i])],
        !.stop_time[p] = <<quantise_to_pseudoclock(p, @[1])>>]))

\* sorted(times)
RECURSIVE sorted(_)
sorted(S) == IF S = {} THEN <<>> ELSE <<Min(S)>> \o sorted(S \ {Min(S)})

\* The loop of Output.get_change_times: whether it raises.  current is the
\* ramp held in current_dict_time, <<>> for None.
RECURSIVE change_times_collide(_, _, _)
change_times_collide(dict, remaining, current) ==
    IF remaining = <<>> THEN FALSE
    ELSE
    LET time == Head(remaining)
    IN IF Get(dict, time).ramp /\ current = <<>>
       THEN change_times_collide(dict, Tail(remaining), <<Get(dict, time)>>)
       ELSE IF current # <<>> /\ current[1].initial < time
                               /\ time < current[1].end
       THEN TRUE
       ELSE change_times_collide(dict, Tail(remaining), current)

\* f with f[k] = v, k a new key or an old one.
Assign(f, k, v) == [x \in DOMAIN f \cup {k} |-> IF x = k THEN v ELSE f[x]]

\* Output.get_change_times
get_change_times(w, o) ==
    IF change_times_collide(w.instructions[o],
                            sorted(Keys(w.instructions[o])), <<>>)
    THEN Raise(w, "RampOverlap")
    ELSE [w EXCEPT !.output_times =
             Assign(@, o, sorted(Keys(w.instructions[o])))]

\* Pseudoclock.get_outputs_by_clockline: the clocklines of a pseudoclock
\* and the outputs of each, in the order of the dict.
clock_lines(pc) ==
    SelectIn(devs[pc].child_devices,
             {d \in Devices : isinstance(d, "ClockLine")})
outputs_by_clockline(pc, clock_line) ==
    SelectIn(get_all_outputs(pc),
             {o \in Outputs : parent_clock_line(o) = clock_line})

\* The outputs of a pseudoclock in the order collect_change_times asks
\* them: clockline by clockline.
RECURSIVE outputs_in_clockline_order(_, _)
outputs_in_clockline_order(pc, lines) ==
    IF lines = <<>> THEN <<>>
    ELSE outputs_by_clockline(pc, Head(lines))
            \o outputs_in_clockline_order(pc, Tail(lines))

\* The first loop of collect_change_times: every output is asked for its
\* change times.
RECURSIVE ask_change_times(_, _)
ask_change_times(w, outputs) ==
    IF outputs = <<>> \/ w.err # "ok" THEN w
    ELSE ask_change_times(get_change_times(w, Head(outputs)), Tail(outputs))

\* The stop time and the trigger times of the pseudoclock device of pc.
parent_stop_time(w, pc) == w.stop_time[devs[pc].parent_device][1]
parent_trigger_times(w, pc) == w.trigger_times[devs[pc].parent_device]

\* all_change_times_numpy: the change times of every output of pc (0 if
\* there is none), the stop time and the trigger times, quantised.
all_change_times_numpy(w, pc) ==
    LET asked == UNION {Keys(w.instructions[o]) :
                           o \in Range(get_all_outputs(pc))}
    IN {quantise_to_pseudoclock(pc, t) :
           t \in (IF asked = {} THEN {0} ELSE asked)
                 \cup {parent_stop_time(w, pc)}
                 \cup Range(parent_trigger_times(w, pc))}

\* all_change_times, as collect_change_times returns it.
all_change_times(w, pc) == sorted(all_change_times_numpy(w, pc))

\* The change times of one clockline, were the change times of the other
\* clocklines not added inside its ramps.
change_time_list_own(w, pc, clock_line) ==
    LET outputs == Range(outputs_by_clockline(pc, clock_line))
        asked == UNION {Keys(w.instructions[o]) : o \in outputs}
        listed == asked \cup Range(parent_trigger_times(w, pc))
    IN sorted({quantise_to_pseudoclock(pc, t) :
                  t \in (IF listed = {} THEN {0} ELSE listed)})

\* The change times of one clockline before the stop time is added: those
\* of its outputs, the change times of the pseudoclock that fall inside
\* one of its ramps, and the trigger times (0 if there is none at all),
\* quantised and sorted.
change_time_list(w, pc, clock_line) ==
    LET outputs == Range(outputs_by_clockline(pc, clock_line))
        asked == UNION {Keys(w.instructions[o]) : o \in outputs}
        ramps == UNION {Range(w.ramp_limits[o]) : o \in outputs}
        breaks == {t \in all_change_times_numpy(w, pc) :
                      \E ramp \in ramps : ramp[1] < t /\ t < ramp[2]}
        listed == asked \cup breaks \cup Range(parent_trigger_times(w, pc))
    IN sorted({quantise_to_pseudoclock(pc, t) :
                  t \in (IF listed = {} THEN {0} ELSE listed)})

\* Whether two adjacent times of a sorted list are closer than a period.
too_close(list, period) ==
    \E i \in 1 .. (Len(list) - 1) : list[i + 1] - list[i] < period

\* Whether some time of the list but the last is followed, among the
\* change times of the pseudoclock, by one closer than a period.  j is the
\* index the loop stops at: the first change time not before list[i].
\* (Every time of the list is a change time of the pseudoclock and not its
\* last one, so all[j + 1] exists.)
too_close_to_next(list, all, period) ==
    \E i \in 1 .. (Len(list) - 1) :
        LET j == Min({k \in DOMAIN all : all[k] >= list[i]} \cup {Len(all)})
        IN j < Len(all) /\ all[j + 1] - list[i] < period

\* The checks collect_change_times makes on one clockline, whose change
\* times are list: the error it raises, "ok" if none.  The message of the
\* error for a stop time too close to the last change time reads
\* self.stop_time, which a Pseudoclock has not.
clock_line_error(list, all, period, stop) ==
    IF too_close(list, period) THEN "ClockLimitExceeded"
    ELSE IF too_close_to_next(list, all, period) THEN "ClockLimitExceeded"
    ELSE IF stop \notin Range(list)
            /\ stop - list[Len(list)] < period
            /\ list[Len(list)] - stop < period
    THEN "AttributeError"
    ELSE "ok"

\* change_times[clock_line], as collect_change_times returns it.
change_times(w, pc, clock_line) ==
    sorted(Range(change_time_list(w, pc, clock_line))
           \cup {parent_stop_time(w, pc)})

\* The error of the first clockline that has one.
RECURSIVE clock_lines_error(_, _, _, _)
clock_lines_error(w, pc, all, lines) ==
    IF lines = <<>> THEN "ok"
    ELSE LET error == clock_line_error(change_time_list(w, pc, Head(lines)),
                                       all, clock_period(Head(lines)),
                                       parent_stop_time(w, pc))
         IN IF error # "ok" THEN error
            ELSE clock_lines_error(w, pc, all, Tail(lines))

\* The checks collect_change_times makes once every output was asked.
check_change_times(w, pc, all) ==
    IF too_close(all, clock_period(pc)) THEN Raise(w, "ClockLimitExceeded")
    ELSE LET error == clock_lines_error(w, pc, all, clock_lines(pc))
         IN IF error # "ok" THEN Raise(w, error) ELSE w

\* collect_change_times without the checks of the clock limits.
collect_change_times_unchecked(w, pc) ==
    ask_change_times(w, outputs_in_clockline_order(pc, clock_lines(pc)))

\* Pseudoclock.collect_change_times
collect_change_times(w, pc) ==
    Then(ask_change_times(w, outputs_in_clockline_order(pc, clock_lines(pc))),
         LAMBDA w1 : check_change_times(w1, pc, all_change_times(w1, pc)))

\* Output.make_timeseries, one entry: the instruction in force at a change
\* time, which is the last one of the output if none starts by then.
timeseries_at(w, o, change_time) ==
    LET started == {t \in Keys(w.instructions[o]) : t <= change_time}
    IN Get(w.instructions[o],
           IF started = {} THEN Max(Keys(w.instructions[o]))
           ELSE Max(started))

\* A segment of the clock program and the WAIT marker.
Segment(first, reps, step, enabled_clocks) ==
    [wait |-> FALSE, start |-> first, reps |-> reps, step |-> step,
     enabled_clocks |-> enabled_clocks]
WAIT == [wait |-> TRUE, start |-> 0, reps |-> 0, step |-> 0,
         enabled_clocks |-> <<>>]

\* The clocklines that tick at a change time: those whose current change
\* time, the first one not before it or else their last, is that time.
\* lists holds change_times, by clockline.
enabled_clocks_at(lists, pc, time) ==
    SelectIn(clock_lines(pc),
             {clock_line \in DOMAIN lists :
                 LET list == lists[clock_line]
                     later == {k \in DOMAIN list : list[k] >= time}
                 IN list[IF later = {} THEN Len(list) ELSE Min(later)]
                       = time})

\* The ramps in force at a change time on the outputs of a clockline.
ramps_at(w, pc, clock_line, time) ==
    {timeseries_at(w, o, time) :
        o \in {x \in Range(outputs_by_clockline(pc, clock_line)) :
                  timeseries_at(w, x, time).ramp}}

\* The clocklines among the enabled ones that have an output ramping at a
\* change time.
enabled_looping_clocks_at(w, pc, enabled, time) ==
    SelectIn(enabled,
             {clock_line \in Range(enabled) :
                 ramps_at(w, pc, clock_line, time) # {}})

\* 1/maxrate before it is quantised: the shortest period asked for by a
\* ramp on an enabled clockline, 0 if there is none.
maxrate_period(w, pc, enabled, time) ==
    LET periods ==
            UNION {{ramp.rate : ramp \in ramps_at(w, pc, clock_line, time)} :
                      clock_line \in Range(enabled)}
    IN IF periods \ {0} = {} THEN 0 ELSE Min(periods \ {0})

\* 1/local_clock_limit: the longest period among the pseudoclock and the
\* clocklines that ramp.
local_clock_period(pc, looping) ==
    Max({clock_period(pc)}
        \cup {clock_period(clock_line) : clock_line \in Range(looping)})

\* The ticks of a ramp: n_ticks of them, a period apart, from time on.
linspace(time, period, n_ticks) ==
    [k \in 1 .. n_ticks |-> time + (k - 1) * period]

\* The ticks of every clockline, with those of a ramp added and no other.
add_ticks_of_ramps(all_times, enabled, looping, time, ticks) ==
    [clock_line \in DOMAIN all_times |->
        IF clock_line \in Range(looping)
        THEN Append(all_times[clock_line], ticks)
        ELSE all_times[clock_line]]

\* The ticks of every clockline, with those of one step added: the ticks
\* of the ramp on the looping clocklines, the time on the other enabled
\* ones.
add_ticks(all_times, enabled, looping, time, ticks) ==
    [clock_line \in DOMAIN all_times |->
        IF clock_line \in Range(looping)
        THEN Append(all_times[clock_line], ticks)
        ELSE IF clock_line \in Range(enabled)
        THEN Append(all_times[clock_line], <<time>>)
        ELSE all_times[clock_line]]

\* The step of the segment that holds the last change time: 10/clock_limit.
last_step(pc) == 10 * clock_period(pc)

\* The segments of a ramp, were every segment to enable the clocklines
\* enabled at its first tick.
ramp_segments_all_enabled(time, period, n_ticks, next, enabled, looping) ==
    (IF n_ticks > 2
     THEN <<Segment(time, 1, period, enabled),
            Segment(time + period, n_ticks - 2, period, enabled)>>
     ELSE IF n_ticks > 1
     THEN <<Segment(time, n_ticks - 1, period, enabled)>>
     ELSE <<>>)
    \o <<Segment(time + (n_ticks - 1) * period, 1,
                 next - (time + (n_ticks - 1) * period), enabled)>>

\* The segments of a ramp of n_ticks ticks that starts at time, up to the
\* next change time.
ramp_segments(time, period, n_ticks, next, enabled, looping) ==
    (IF n_ticks > 2
     THEN <<Segment(time, 1, period, enabled),
            Segment(time + period, n_ticks - 2, period, looping)>>
     ELSE IF n_ticks > 1
     THEN <<Segment(time, n_ticks - 1, period, enabled)>>
     ELSE <<>>)
    \o <<Segment(time + (n_ticks - 1) * period, 1,
                 next - (time + (n_ticks - 1) * period),
                 IF n_ticks = 1 THEN enabled ELSE looping)>>

\* The number of ticks of a ramp, a last tick squeezed in wherever the
\* period does not divide the duration.
ramp_ticks_squeezed(time, next, period, local) ==
    ((next - time) \div period)
    + (IF (next - time) % period # 0 THEN 1 ELSE 0)

\* The number of ticks of a ramp between a change time and the next.
ramp_ticks(time, next, period, local) ==
    ((next - time) \div period)
    + (IF (next - time) % period # 0 /\ (next - time) % period >= local
       THEN 1 ELSE 0)

\* One pass of the loop of expand_change_times, for a change time at which
\* an output ramps with the period asked.  acc carries clock, all_times
\* and the error.
expand_ramp(pc, acc, time, last, next, enabled, looping, asked) ==
    LET resolution == devs[pc].clock_resolution
        period == np_round(asked, resolution) * resolution
        local == local_clock_period(pc, looping)
    IN
    IF period = 0 THEN [acc EXCEPT !.err = "ZeroDivisionError"]
    ELSE IF period < local THEN [acc EXCEPT !.err = "ClockLimitExceeded"]
    ELSE IF last THEN [acc EXCEPT !.err = "IndexError"]
    ELSE IF ramp_ticks(time, next, period, local) = 0
    THEN [acc EXCEPT !.err = "IndexError"]
    ELSE
    [acc EXCEPT
        !.all_times =
            add_ticks(@, enabled, looping, time,
                      linspace(time, period,
                               ramp_ticks(time, next, period, local))),
        !.clock =
            @ \o ramp_segments(time, period,
                               ramp_ticks(time, next, period, local),
                               next, enabled, looping)]

\* One pass of the loop, were a last change time after the stop time let
\* through.
expand_step_past_stop(pc, acc, time, last, next, enabled, stop) ==
    LET ticked == [acc EXCEPT
                      !.all_times = add_ticks(@, enabled, <<>>, time, <<>>)]
    IN
    IF ~last
    THEN [ticked EXCEPT
             !.clock = Append(@, Segment(time, 1, next - time, enabled))]
    ELSE IF stop > time THEN [ticked EXCEPT !.err = "Exception"]
    ELSE [ticked EXCEPT
             !.clock = Append(@, Segment(time, 1, last_step(pc),
                                         clock_lines(pc)))]

\* One pass of the loop for a change time at which no output ramps.
expand_step(pc, acc, time, last, next, enabled, stop) ==
    LET ticked == [acc EXCEPT
                      !.all_times = add_ticks(@, enabled, <<>>, time, <<>>)]
    IN
    IF ~last
    THEN [ticked EXCEPT
             !.clock = Append(@, Segment(time, 1, next - time, enabled))]
    ELSE IF stop > time THEN [ticked EXCEPT !.err = "Exception"]
    ELSE IF stop < time
    THEN [ticked EXCEPT !.err = "InstructionsAfterStop"]
    ELSE [ticked EXCEPT
             !.clock = Append(@, Segment(time, 1, last_step(pc),
                                         clock_lines(pc)))]

\* One pass of the loop, with the clocklines enabled at the change time.
expand_at(w, pc, acc, time, last, next, enabled) ==
    IF maxrate_period(w, pc, enabled, time) # 0
    THEN expand_ramp(pc, acc, time, last, next, enabled,
                     enabled_looping_clocks_at(w, pc, enabled, time),
                     maxrate_period(w, pc, enabled, time))
    ELSE expand_step(pc, acc, time, last, next, enabled,
                     parent_stop_time(w, pc))

\* The WAIT instruction, were it emitted at every trigger time.
wait_instruction_at_any_trigger(w, pc, acc, time) ==
    IF time \in Range(parent_trigger_times(w, pc))
    THEN [acc EXCEPT !.clock = Append(@, WAIT)]
    ELSE acc

\* The start of a pass of the loop: a WAIT instruction is emitted at a
\* change time that is a trigger time but the first.
wait_instruction(w, pc, acc, time) ==
    IF time \in Range(Tail(parent_trigger_times(w, pc)))
    THEN [acc EXCEPT !.clock = Append(@, WAIT)]
    ELSE acc

\* The loop of expand_change_times over all_change_times, from index i.
RECURSIVE expand_from(_, _, _, _, _, _)
expand_from(w, pc, all, lists, acc, i) ==
    IF i > Len(all) \/ acc.err # "ok" THEN acc
    ELSE expand_from(
            w, pc, all, lists,
            expand_at(w, pc, wait_instruction(w, pc, acc, all[i]),
                      all[i], i = Len(all),
                      IF i = Len(all) THEN all[i] ELSE all[i + 1],
                      enabled_clocks_at(lists, pc, all[i])),
            i + 1)

\* Pseudoclock.expand_change_times: all_times (for each clockline, the
\* ticks of each change time at which it is enabled), clock and the error
\* raised.
expand_change_times(w, pc) ==
    expand_from(w, pc, all_change_times(w, pc),
                [clock_line \in Range(clock_lines(pc)) |->
                    change_times(w, pc, clock_line)],
                [err |-> "ok", clock |-> <<>>,
                 all_times |-> [clock_line \in Range(clock_lines(pc)) |-> <<>>]],
                1)

\* fastflatten: the ticks of a clockline as one list.
RECURSIVE fastflatten(_)
fastflatten(time_array) ==
    IF time_array = <<>> THEN <<>>
    ELSE Head(time_array) \o fastflatten(Tail(time_array))

\* The while loop of make_timeseries, with > for >=.
RECURSIVE make_timeseries_step_after(_, _, _)
make_timeseries_step_after(o_times, change_time, i) ==
    IF i < Len(o_times) /\ change_time > o_times[i + 1]
    THEN make_timeseries_step_after(o_times, change_time, i + 1)
    ELSE i

\* The while loop of make_timeseries: i moves past every instruction time
\* that is not after the change time.  (i counts from 0, o_times from 1.)
RECURSIVE make_timeseries_step(_, _, _)
make_timeseries_step(o_times, change_time, i) ==
    IF i < Len(o_times) /\ change_time >= o_times[i + 1]
    THEN make_timeseries_step(o_times, change_time, i + 1)
    ELSE i

\* The for loop of make_timeseries, from the index i the previous change
\* time left; times[i - 1] is the last time of the list if i is 0.
RECURSIVE make_timeseries_from(_, _, _, _)
make_timeseries_from(o_times, o_instructions, remaining, i) ==
    IF remaining = <<>> THEN <<>>
    ELSE LET j == make_timeseries_step(o_times, Head(remaining), i)
         IN <<Get(o_instructions,
                  o_times[IF j = 0 THEN Len(o_times) ELSE j])>>
            \o make_timeseries_from(o_times, o_instructions,
                                    Tail(remaining), j)

\* Output.make_timeseries: self.timeseries
make_timeseries(w, o, clock_line_change_times) ==
    make_timeseries_from(w.output_times[o], w.instructions[o],
                         clock_line_change_times, 0)

\* The loop of expand_timeseries over all_times: one sample for each tick.
\* The sample of a ramp is kept as the ramp, its function not evaluated.
RECURSIVE expand_timeseries(_, _)
expand_timeseries(timeseries, all_times) ==
    IF all_times = <<>> THEN <<>>
    ELSE [j \in DOMAIN Head(all_times) |-> Head(timeseries)]
         \o expand_timeseries(Tail(timeseries), Tail(all_times))

\* Output.raw_output of every output of a pseudoclock: the timeseries
\* itself on a clockline that does not allow ramps.
raw_outputs(w, pc, all_times) ==
    [o \in Range(get_all_outputs(pc)) |->
        LET timeseries ==
                make_timeseries(w, o, change_times(w, pc, parent_clock_line(o)))
        IN IF ~devs[parent_clock_line(o)].ramping_allowed THEN timeseries
           ELSE expand_timeseries(timeseries,
                                  all_times[parent_clock_line(o)])]

\* The attributes generate_clock sets from what expand_change_times
\* returned, or the error that raised.
set_clock(w, pc, expanded) ==
    IF expanded.err # "ok" THEN Raise(w, expanded.err)
    ELSE [w EXCEPT
             !.clock = Assign(@, pc, expanded.clock),
             !.times = Assign(@, pc,
                              [clock_line \in DOMAIN expanded.all_times |->
                                  fastflatten(expanded.all_times[clock_line])]),
             !.raw_output =
                 [o \in DOMAIN @ \cup Range(get_all_outputs(pc)) |->
                     IF o \in Range(get_all_outputs(pc))
                     THEN raw_outputs(w, pc, expanded.all_times)[o]
                     ELSE @[o]]]

\* Pseudoclock.generate_clock
generate_clock(w, pc) ==
    Then(collect_change_times(w, pc), LAMBDA w1 :
        set_clock(w1, pc, expand_change_times(w1, pc)))

\* TriggerableDevice.do_checks
TriggerableDevice_do_checks(w, d) ==
    IF \E device \in Range(devs[devs[d].parent_device].child_devices) :
          device # d /\ \E trigger \in Range(w.requested[d]) :
                            trigger \notin Range(w.requested[device])
    THEN Raise(w, "TriggerMismatch")
    ELSE w

\* generate_code of each class, down the tree.
RECURSIVE generate_code(_, _)
RECURSIVE Device_generate_code(_, _)
Device_generate_code(w, children) ==
    IF children = <<>> \/ w.err # "ok" THEN w
    ELSE Device_generate_code(generate_code(w, Head(children)),
                              Tail(children))

generate_code(w, d) ==
    Then(IF isinstance(d, "PseudoclockDevice")
         THEN Then(PseudoclockDevice_do_checks(w, d, get_all_outputs(d)),
                   LAMBDA checked :
                       PseudoclockDevice_offset_instructions_from_trigger(
                           checked, d, get_all_outputs(d)))
         ELSE IF isinstance(d, "Pseudoclock") THEN generate_clock(w, d)
         ELSE IF isinstance(d, "TriggerableDevice")
         THEN TriggerableDevice_do_checks(w, d)
         ELSE w,
         LAMBDA w1 : Device_generate_code(w1, devs[d].child_devices))

\* The loop of the module-level generate_code(): every parentless device
\* of the inventory, in order.
RECURSIVE generate_devices(_, _)
generate_devices(w, devices) ==
    IF devices = <<>> \/ w.err # "ok" THEN w
    ELSE generate_devices(
            IF devs[Head(devices)].parent_device = NoDevice
            THEN generate_code(w, Head(devices))
            ELSE w,
            Tail(devices))

\* The module-level generate_code(): a shot file that already holds the
\* devices group cannot be compiled into again.
generate_toplevel(w) ==
    IF w.compilation_data THEN Raise(w, "ValueError")
    ELSE generate_devices([w EXCEPT !.compilation_data = TRUE], inventory)

\* stop(t), up to the compile pass: the stop time of every pseudoclock
\* device and the shot properties.
set_stop_time(w, t) ==
    [w EXCEPT
        !.stop_time = [p \in DOMAIN @ |->
                          IF p \in Range(inventory) THEN <<t>> ELSE @[p]],
        !.shot_properties = TRUE]

\* stop(t) without the check of t.
stop_unchecked(w, t) == generate_toplevel(set_stop_time(w, t))

\* stop(t)
stop(w, t) ==
    IF t = 0 THEN Raise(w, "ZeroStop")
    ELSE generate_toplevel(set_stop_time(w, t))

-----------------------------------------------------------------------------
(* The experiment script: a declared device tree, then start(),           *)
(* instructions and stop(t).                                               *)

\* The connection table of the script, as its constructors leave it: a
\* master pseudoclock device with one clockline and an analog output a0
\* (limits (0, 2), calibrated), and a secondary pseudoclock device with a
\* trigger delay, triggered from the master's card, with an analog output
\* a1 (no limits, no calibration).
ScriptDevices ==
    <<[DeviceObject("PseudoclockDevice", "pcd0", NoDevice, "None") EXCEPT
          !.child_devices = <<2>>, !.clock_period = 9,
          !.clock_resolution = 9],
      [DeviceObject("Pseudoclock", "pc0", 1, "clock") EXCEPT
          !.child_devices = <<3>>, !.clock_period = 9,
          !.clock_resolution = 9],
      [DeviceObject("ClockLine", "cl0", 2, "line") EXCEPT
          !.child_devices = <<4>>],
      [DeviceObject("IntermediateDevice", "id0", 3, "internal") EXCEPT
          !.child_devices = <<5, 6>>],
      [DeviceObject("AnalogOut", "a0", 4, "ao0") EXCEPT
          !.limits = <<0, 2>>, !.calibrated = TRUE],
      [DeviceObject("Trigger", "pcd1_trigger", 4, "do0") EXCEPT
          !.child_devices = <<7>>],
      [DeviceObject("PseudoclockDevice", "pcd1", 6, "trigger") EXCEPT
          !.child_devices = <<8>>, !.clock_period = 9,
          !.clock_resolution = 9, !.trigger_delay = 3],
      [DeviceObject("Pseudoclock", "pc1", 7, "clock") EXCEPT
          !.child_devices = <<9>>, !.clock_period = 9,
          !.clock_resolution = 9],
      [DeviceObject("ClockLine", "cl1", 8, "line") EXCEPT
          !.child_devices = <<10>>],
      [DeviceObject("IntermediateDevice", "id1", 9, "internal") EXCEPT
          !.child_devices = <<11>>],
      DeviceObject("AnalogOut", "a1", 10, "ao0")>>

\* The outputs the script commands and the arguments it passes: times that
\* round to -3, 0, 3, 9 and 18, and values that fall below, on and above
\* the limits of a0, with and without units.
ScriptOutputs == {5, 11}
TimeArgs(o) == IF o = 5 THEN {-2, -1, 9, 18} ELSE {-1, 3, 9}
ScalarArgs ==
    {<<-1, "None">>, <<0, "None">>, <<1, "V">>, <<2, "V">>}
\* <<end time, 1/clock rate>> of a ramp that ends at the value 2
RampArgs == {<<9, 9>>, <<26, 9>>, <<26, 0>>}
InstructionArgs(o) ==
    {<<t, Scalar(a[1]), a[2]>> : t \in TimeArgs(o), a \in ScalarArgs}
    \cup {<<t, Ramp(t, a[1], a[2], 2, "None"), "None">> :
             t \in TimeArgs(o), a \in RampArgs}
InitialTriggerTimeArgs == {8}
StopArgs == {0, 46}

\* The state the compile pass starts from, as kept in  before.
Snapshot(w) ==
    [instructions |-> w.instructions, ramp_limits |-> w.ramp_limits,
     trigger_times |-> w.trigger_times, stop_time |-> w.stop_time]

ScriptInit ==
    /\ devs = ScriptDevices
    /\ inventory = <<1, 2, 3, 4, 5, 6, 7, 8, 9, 10, 11>>
    /\ registry = {ScriptDevices[d].name : d \in DOMAIN ScriptDevices}
    /\ start_called = FALSE
    /\ all_pseudoclocks = <<>>
    /\ master_pseudoclock = NoDevice
    /\ trigger_duration = 0
    /\ wait_delay = 0
    /\ shot_properties = FALSE
    /\ compilation_data = FALSE
    /\ wait_table = <<>>
    /\ initial_trigger_time =
          [p \in {d \in DOMAIN ScriptDevices :
                    ScriptDevices[d].kind = "PseudoclockDevice"} |-> 0]
    /\ trigger_times = [p \in DOMAIN initial_trigger_time |-> <<>>]
    /\ stop_time = [p \in DOMAIN initial_trigger_time |-> <<>>]
    /\ instructions =
          [o \in {d \in DOMAIN ScriptDevices :
                    "Output" \in Supers(ScriptDevices[d].kind)} |-> <<>>]
    /\ ramp_limits = [o \in DOMAIN instructions |-> <<>>]
    /\ triggerings =
          [tr \in {d \in DOMAIN ScriptDevices :
                     ScriptDevices[d].kind = "Trigger"} |-> <<>>]
    /\ requested = [d \in DOMAIN initial_trigger_time |-> <<>>]
    /\ clock = <<>>
    /\ times = <<>>
    /\ output_times = <<>>
    /\ raw_output = <<>>
    /\ op = "init"
    /\ args = <<>>
    /\ err = "ok"
    /\ warned = FALSE
    /\ ret = NoDevice
    /\ before = Snapshot(World)
    /\ calls = 0
    /\ starts = 0
    /\ stops = 0

SetInitialTriggerTime(p, t) ==
    /\ starts = 0 /\ calls = 0 /\ stops = 0
    /\ Commit(set_initial_trigger_time(World, p, t))
    /\ op' = "set_initial_trigger_time"
    /\ args' = <<>>
    /\ UNCHANGED <<treeVars, ret, before, calls, starts, stops>>

Start ==
    /\ starts < MaxStarts
    /\ Commit(start(World))
    /\ op' = "start"
    /\ args' = <<>>
    /\ starts' = starts + 1
    /\ UNCHANGED <<treeVars, ret, before, calls, stops>>

AddInstruction(o, time, instruction, units) ==
    /\ calls < MaxCalls
    /\ Commit(add_instruction(World, o, time, instruction, units))
    /\ op' = "add_instruction"
    /\ args' = <<o, time, instruction, units>>
    /\ calls' = calls + 1
    /\ UNCHANGED <<treeVars, ret, before, starts, stops>>

Stop(t) ==
    /\ stops < MaxStops
    /\ Commit(stop(World, t))
    /\ op' = "stop"
    /\ args' = <<t>>
    /\ before' = IF t = 0 THEN before ELSE Snapshot(set_stop_time(World, t))
    /\ stops' = stops + 1
    /\ UNCHANGED <<treeVars, ret, calls, starts>>

Next ==
    \/ \E p \in PseudoclockDevices, t \in InitialTriggerTimeArgs :
          SetInitialTriggerTime(p, t)
    \/ Start
    \/ \E o \in ScriptOutputs : \E a \in InstructionArgs(o) :
          AddInstruction(o, a[1], a[2], a[3])
    \/ \E t \in StopArgs : Stop(t)

Spec == ScriptInit /\ [][Next]_vars

-----------------------------------------------------------------------------
(* The connection table: the constructors of the device classes, which    *)
(* attach the new device to its parent with add_device.                   *)

\* The tree as one value, with the error raised so far.
Tree ==
    [devs |-> devs, inventory |-> inventory, registry |-> registry,
     err |-> "ok"]

\* Python's keywords and the names that are no variable names, among the
\* names tried.
kwlist == {"for"}
invalid_names == {"a.b"}

\* add_device that attaches whatever it is given.
Device_add_device_any(T, parent, child) ==
    [T EXCEPT !.devs[parent].child_devices = Append(@, child)]

\* Device.add_device
Device_add_device(T, parent, child) ==
    IF \E class \in allowed_children(T.devs[parent].kind) :
          class \in Supers(T.devs[child].kind)
    THEN [T EXCEPT !.devs[parent].child_devices = Append(@, child)]
    ELSE Raise(T, "KindMismatch")

\* ClockLine.add_device: the line's limit is the lowest of its children's.
ClockLine_add_device(T, parent, child) ==
    Then(Device_add_device(T, parent, child), LAMBDA T1 :
        IF T1.devs[child].clock_period # 0
           /\ (T1.devs[parent].clock_period = 0
               \/ T1.devs[child].clock_period > T1.devs[parent].clock_period)
        THEN [T1 EXCEPT !.devs[parent].clock_period =
                            T1.devs[child].clock_period]
        ELSE T1)

\* Trigger.add_device
Trigger_add_device(T, parent, child) ==
    IF T.devs[child].connection # "trigger"
    THEN Raise(T, "BadTriggerConnection")
    ELSE Device_add_device(T, parent, child)

\* parent.add_device(child), by the class of the parent.
add_device(T, parent, child) ==
    IF "Trigger" \in Supers(T.devs[parent].kind)
    THEN Trigger_add_device(T, parent, child)
    ELSE IF "ClockLine" \in Supers(T.devs[parent].kind)
    THEN ClockLine_add_device(T, parent, child)
    ELSE Device_add_device(T, parent, child)

\* The attributes of a new object of a class.  A pseudoclock device is one
\* of a concrete class, which gives it a clock limit and a resolution.
NewObject(kind, name, parent, connection) ==
    IF kind = "PseudoclockDevice"
    THEN [DeviceObject(kind, name, parent, connection) EXCEPT
            !.clock_period = 9, !.clock_resolution = 9]
    ELSE DeviceObject(kind, name, parent, connection)

\* Device.__init__ without the checks of the name.
Device_init_unnamed(T, kind, name, parent, connection) ==
    LET created ==
            [T EXCEPT
                !.devs = Append(@, NewObject(kind, name, parent, connection))]
        attached ==
            IF parent # NoDevice
            THEN add_device(created, parent, Len(T.devs) + 1)
            ELSE created
    IN IF attached.err # "ok" THEN Raise(T, attached.err)
       ELSE [attached EXCEPT !.registry = @ \cup {name},
                             !.inventory = Append(@, Len(T.devs) + 1)]

\* Device.__init__.  The new object is the next one of devs.  An object
\* whose constructor raised is kept only if its parent holds it.
Device_init(T, kind, name, parent, connection) ==
    LET id == Len(T.devs) + 1
        created ==
            [T EXCEPT
                !.devs = Append(@, NewObject(kind, name, parent, connection))]
        attached ==
            IF parent # NoDevice THEN add_device(created, parent, id)
            ELSE created
        name_error ==
            IF name \in T.registry THEN "NameClash"
            ELSE IF name \in kwlist THEN "ReservedName"
            ELSE IF name \in invalid_names THEN "InvalidName"
            ELSE "ok"
    IN IF attached.err # "ok" THEN Raise(T, attached.err)
       ELSE IF name_error # "ok"
       THEN Raise(IF parent = NoDevice THEN T ELSE attached, name_error)
       ELSE [attached EXCEPT !.registry = @ \cup {name},
                             !.inventory = Append(@, id)]

\* IntermediateDevice.__init__
IntermediateDevice_init(T, kind, name, parent) ==
    IF parent # NoDevice /\ "ClockLine" \notin Supers(T.devs[parent].kind)
    THEN Raise(T, "NotClockLine")
    ELSE Device_init(T, kind, name, parent, "internal")

\* The clock line of a device of the tree T, NoDevice where the walk up
\* the parents finds none.
RECURSIVE clock_line_in(_, _)
clock_line_in(T, d) ==
    IF d = NoDevice THEN NoDevice
    ELSE IF "ClockLine" \in Supers(T.devs[d].kind) THEN d
    ELSE clock_line_in(T, T.devs[d].parent_device)

\* Pseudoclock.__init__: the clock limit and resolution are read from the
\* parent after Device.__init__.
Pseudoclock_init(T, kind, name, parent, connection) ==
    Then(Device_init(T, kind, name, parent, connection), LAMBDA T1 :
        IF parent = NoDevice THEN Raise(T1, "AttributeError")
        ELSE IF "PseudoclockDevice" \in Supers(T1.devs[parent].kind)
        THEN [T1 EXCEPT
                !.devs[Len(T1.devs)].clock_period =
                    T1.devs[parent].clock_period,
                !.devs[Len(T1.devs)].clock_resolution =
                    T1.devs[parent].clock_resolution]
        ELSE IF "Output" \in Supers(T1.devs[parent].kind)
                /\ clock_line_in(T1, T1.devs[parent].parent_device) = NoDevice
        THEN Raise(T1, "NoClockLine")
        ELSE Raise(T1, "AttributeError"))

\* TriggerableDevice.__init__.  Every trigger edge type is 'rising'.
TriggerableDevice_init(T, kind, name, parent, connection, parentless) ==
    IF (parent = NoDevice \/ connection = "None") /\ ~parentless
    THEN Raise(T, "NoParent")
    ELSE IF parent = NoDevice \/ "Trigger" \in Supers(T.devs[parent].kind)
    THEN Device_init(T, kind, name, parent, connection)
    ELSE Then(Device_init(T, "Trigger", name \o "_trigger", parent,
                          connection),
              LAMBDA T1 : Device_init(T1, kind, name, Len(T1.devs), "trigger"))

\* The pseudoclock device of a device of the tree T, NoDevice for None.
RECURSIVE pseudoclock_device_in(_, _)
pseudoclock_device_in(T, d) ==
    IF d = NoDevice THEN NoDevice
    ELSE IF "PseudoclockDevice" \in Supers(T.devs[d].kind) THEN d
    ELSE pseudoclock_device_in(T, T.devs[d].parent_device)

\* PseudoclockDevice.__init__ without its checks of the master.
PseudoclockDevice_init_unchecked(T, kind, name, trigger_device, trigger_connection) ==
    IF trigger_device = NoDevice
    THEN TriggerableDevice_init(T, kind, name, NoDevice, "None", TRUE)
    ELSE TriggerableDevice_init(T, kind, name, trigger_device,
                                trigger_connection, FALSE)

\* PseudoclockDevice.__init__
PseudoclockDevice_init(T, kind, name, trigger_device, trigger_connection) ==
    IF trigger_device = NoDevice
    THEN IF \E device \in Range(T.inventory) :
               /\ "PseudoclockDevice" \in Supers(T.devs[device].kind)
               /\ T.devs[device].parent_device = NoDevice
         THEN Raise(T, "MultipleMasters")
         ELSE TriggerableDevice_init(T, kind, name, NoDevice, "None", TRUE)
    ELSE Then(TriggerableDevice_init(T, kind, name, trigger_device,
                                     trigger_connection, FALSE),
              LAMBDA T1 :
                  LET trigger == T1.devs[Len(T1.devs)].parent_device
                      clocking == pseudoclock_device_in(T1, trigger)
                  IN IF clocking = NoDevice THEN Raise(T1, "AttributeError")
                     ELSE IF T1.devs[clocking].parent_device # NoDevice
                     THEN Raise(T1, "ChainedPseudoclocks")
                     ELSE T1)

\* Kind(name, parent, connection)
construct(T, kind, name, parent, connection) ==
    IF kind = "IntermediateDevice"
    THEN IntermediateDevice_init(T, kind, name, parent)
    ELSE IF kind = "Pseudoclock"
    THEN Pseudoclock_init(T, kind, name, parent, connection)
    ELSE IF kind = "TriggerableDevice"
    THEN TriggerableDevice_init(T, kind, name, parent, connection, FALSE)
    ELSE IF kind = "PseudoclockDevice"
    THEN PseudoclockDevice_init(T, kind, name, parent, connection)
    ELSE Device_init(T, kind, name, parent, connection)

\* The classes and connections the connection table is built from.
KindArgs ==
    {"IntermediateDevice", "ClockLine", "Pseudoclock", "PseudoclockDevice",
     "DigitalOut", "Trigger"}
\* The names tried: the next unused one, one that may be in use, a keyword
\* and one that is no variable name.
FreshNames == <<"a", "b", "c", "d", "e", "f", "g", "h">>
NameArgs == {FreshNames[Cardinality(registry) + 1], "a", "for", "a.b"}
ConnectionArgs(parent) ==
    IF parent # NoDevice /\ isinstance(parent, "Trigger")
    THEN {"trigger", "port"}
    ELSE {"port"}

\* f, with the value v at the new keys S.
Extend(f, S, v) ==
    [x \in DOMAIN f \cup S |-> IF x \in DOMAIN f THEN f[x] ELSE v]

\* The new objects of the tree T whose class is a class_ and, where
\* complete is asked, whose Device.__init__ has returned.
NewObjects(T, class, complete) ==
    {d \in DOMAIN T.devs \ DOMAIN devs :
        /\ class \in Supers(T.devs[d].kind)
        /\ complete => d \in Range(T.inventory)}

\* The state a constructor leaves behind: the tree, and the attributes
\* its classes initialise.
Built(T) ==
    /\ devs' = T.devs
    /\ inventory' = T.inventory
    /\ registry' = T.registry
    /\ err' = T.err
    /\ instructions' = Extend(instructions, NewObjects(T, "Output", TRUE), <<>>)
    /\ ramp_limits' = Extend(ramp_limits, NewObjects(T, "Output", TRUE), <<>>)
    /\ triggerings' = Extend(triggerings, NewObjects(T, "Trigger", TRUE), <<>>)
    /\ requested' =
          Extend(requested, NewObjects(T, "TriggerableDevice", FALSE), <<>>)
    /\ initial_trigger_time' =
          Extend(initial_trigger_time,
                 IF T.err = "ok"
                 THEN NewObjects(T, "PseudoclockDevice", TRUE) ELSE {}, 0)
    /\ trigger_times' =
          Extend(trigger_times,
                 IF T.err = "ok"
                 THEN NewObjects(T, "PseudoclockDevice", TRUE) ELSE {}, <<>>)
    /\ stop_time' =
          Extend(stop_time,
                 IF T.err = "ok"
                 THEN NewObjects(T, "PseudoclockDevice", TRUE) ELSE {}, <<>>)

TreeInit ==
    /\ devs = <<>>
    /\ inventory = <<>>
    /\ registry = {}
    /\ start_called = FALSE
    /\ all_pseudoclocks = <<>>
    /\ master_pseudoclock = NoDevice
    /\ trigger_duration = 0
    /\ wait_delay = 0
    /\ shot_properties = FALSE
    /\ compilation_data = FALSE
    /\ wait_table = <<>>
    /\ initial_trigger_time = <<>>
    /\ trigger_times = <<>>
    /\ stop_time = <<>>
    /\ instructions = <<>>
    /\ ramp_limits = <<>>
    /\ triggerings = <<>>
    /\ requested = <<>>
    /\ clock = <<>>
    /\ times = <<>>
    /\ output_times = <<>>
    /\ raw_output = <<>>
    /\ op = "init"
    /\ args = <<>>
    /\ err = "ok"
    /\ warned = FALSE
    /\ ret = NoDevice
    /\ before = Snapshot(World)
    /\ calls = 0
    /\ starts = 0
    /\ stops = 0

\* Kind(name, parent, connection)
Construct(kind, name, parent, connection) ==
    /\ Len(devs) < MaxDevices
    /\ Built(construct(Tree, kind, name, parent, connection))
    /\ op' = "construct"
    /\ args' = <<>>
    /\ UNCHANGED <<compilerVars, programVars, warned, ret, before, calls,
                   starts, stops>>

\* parent.add_device(child), called on two devices of the table
AddDevice(parent, child) ==
    /\ calls < MaxAdds
    /\ Built(add_device(Tree, parent, child))
    /\ op' = "add_device"
    /\ args' = <<parent, child>>
    /\ calls' = calls + 1
    /\ UNCHANGED <<compilerVars, programVars, warned, ret, before, starts,
                   stops>>

\* device.pseudoclock_device
PseudoclockDeviceOf(d) ==
    /\ op' = "pseudoclock_device"
    /\ args' = <<d>>
    /\ ret' = pseudoclock_device(d)
    /\ err' = "ok"
    /\ UNCHANGED <<treeVars, compilerVars, clockVars, outputVars,
                   programVars, warned, before, calls, starts, stops>>

TreeNext ==
    \/ \E kind \in KindArgs, name \in NameArgs,
          parent \in Devices \cup {NoDevice} :
          \E connection \in ConnectionArgs(parent) :
              Construct(kind, name, parent, connection)
    \/ \E parent \in Devices, child \in Devices : AddDevice(parent, child)
    \/ \E d \in Devices : PseudoclockDeviceOf(d)

SpecTree == TreeInit /\ [][TreeNext]_vars

-----------------------------------------------------------------------------
(* More pseudoclock devices declared in the connection table of the       *)
(* script.                                                                 *)

\* The names and the trigger devices tried: a new name and the name of the
\* script's secondary; no trigger device, or any device of the table.
SecondaryNameArgs == {"pcd2", "pcd1"}
TriggerDeviceArgs == Devices \cup {NoDevice}

\* PseudoclockDevice(name, trigger_device, trigger_connection)
ConstructPseudoclockDevice(name, trigger_device, trigger_connection) ==
    /\ calls < MaxSecondaries
    /\ Built(PseudoclockDevice_init(Tree, "PseudoclockDevice", name,
                                    trigger_device, trigger_connection))
    /\ op' = "PseudoclockDevice"
    /\ args' = <<trigger_device, trigger_connection>>
    /\ calls' = calls + 1
    /\ UNCHANGED <<compilerVars, programVars, warned, ret, before, starts,
                   stops>>

SecondaryNext ==
    \E name \in SecondaryNameArgs, trigger_device \in TriggerDeviceArgs :
        \E trigger_connection \in ConnectionArgs(trigger_device) :
            ConstructPseudoclockDevice(name, trigger_device,
                                       trigger_connection)

SpecSecondary == ScriptInit /\ [][SecondaryNext]_vars

-----------------------------------------------------------------------------
(* Scripts with waits, on two connection tables.                           *)

\* A master pseudoclock device whose clock limit is not a multiple of its
\* resolution (period 12, resolution 9), with a clockline cl0 that takes
\* the limit of the pseudoclock and a slow clockline cl1 (period 27), and
\* an analog output on each.
MasterDevices ==
    <<[DeviceObject("PseudoclockDevice", "pcd0", NoDevice, "None") EXCEPT
          !.child_devices = <<2>>, !.clock_period = 12,
          !.clock_resolution = 9],
      [DeviceObject("Pseudoclock", "pc0", 1, "clock") EXCEPT
          !.child_devices = <<3, 6>>, !.clock_period = 12,
          !.clock_resolution = 9],
      [DeviceObject("ClockLine", "cl0", 2, "line0") EXCEPT
          !.child_devices = <<4>>],
      [DeviceObject("IntermediateDevice", "id0", 3, "internal") EXCEPT
          !.child_devices = <<5>>],
      DeviceObject("AnalogOut", "a0", 4, "ao0"),
      [DeviceObject("ClockLine", "cl1", 2, "line1") EXCEPT
          !.child_devices = <<7>>, !.clock_period = 27],
      [DeviceObject("IntermediateDevice", "id1", 6, "internal") EXCEPT
          !.child_devices = <<8>>],
      DeviceObject("AnalogOut", "a1", 7, "ao0")>>

\* The connection table of the script above, its secondary pseudoclock
\* device with a wait delay.
ChainedDevices == [ScriptDevices EXCEPT ![7].wait_delay = 27]

\* The arguments of the statements: times that round to 27, 36 and 54, a
\* value or a ramp of 54 with a period of 18, waits at times that round to
\* 0, 54 and 81, and two stop times.
ClockTimeArgs == {26, 36, 54}
ClockInstructionArgs ==
    {<<t, Scalar(1), "None">> : t \in ClockTimeArgs}
    \cup {<<t, Ramp(t, t + 54, 18, 2, "None"), "None">> : t \in ClockTimeArgs}
LabelArgs == {"w", "x"}
WaitTimeArgs == {0, 53, 54, 81}
TimeoutArgs == {5}
ClockStopArgs == {90, 108}

\* The state a script starts in, its connection table one of tables.
TableInit(tables) ==
    /\ devs \in tables
    /\ inventory = [i \in DOMAIN devs |-> i]
    /\ registry = {devs[d].name : d \in DOMAIN devs}
    /\ start_called = FALSE
    /\ all_pseudoclocks = <<>>
    /\ master_pseudoclock = NoDevice
    /\ trigger_duration = 0
    /\ wait_delay = 0
    /\ shot_properties = FALSE
    /\ compilation_data = FALSE
    /\ wait_table = <<>>
    /\ initial_trigger_time = [p \in PseudoclockDevices |-> 0]
    /\ trigger_times = [p \in PseudoclockDevices |-> <<>>]
    /\ stop_time = [p \in PseudoclockDevices |-> <<>>]
    /\ instructions = [o \in Outputs |-> <<>>]
    /\ ramp_limits = [o \in Outputs |-> <<>>]
    /\ triggerings = [tr \in Triggers |-> <<>>]
    /\ requested = [d \in PseudoclockDevices |-> <<>>]
    /\ clock = <<>>
    /\ times = <<>>
    /\ output_times = <<>>
    /\ raw_output = <<>>
    /\ op = "init"
    /\ args = <<>>
    /\ err = "ok"
    /\ warned = FALSE
    /\ ret = NoDevice
    /\ before = Snapshot(World)
    /\ calls = 0
    /\ starts = 0
    /\ stops = 0

ClockInit == TableInit({MasterDevices, ChainedDevices})

ClockAddInstruction(o, time, instruction, units) ==
    /\ calls < MaxStatements
    /\ Commit(add_instruction(World, o, time, instruction, units))
    /\ op' = "add_instruction"
    /\ args' = <<o, time, instruction, units>>
    /\ calls' = calls + 1
    /\ UNCHANGED <<treeVars, ret, before, starts, stops>>

Wait(label, t, timeout) ==
    /\ calls < MaxStatements
    /\ Commit(wait(World, label, t, timeout))
    /\ op' = "wait"
    /\ args' = <<label, t, timeout>>
    /\ calls' = calls + 1
    /\ UNCHANGED <<treeVars, ret, before, starts, stops>>

ClockStop(t) ==
    /\ stops < MaxStops
    /\ Commit(stop(World, t))
    /\ op' = "stop"
    /\ args' = <<t>>
    /\ before' = Snapshot(set_stop_time(World, t))
    /\ stops' = stops + 1
    /\ UNCHANGED <<treeVars, ret, calls, starts>>

ClockNext ==
    \/ Start
    \/ \E o \in Outputs \ Triggers : \E a \in ClockInstructionArgs :
          ClockAddInstruction(o, a[1], a[2], a[3])
    \/ \E label \in LabelArgs, t \in WaitTimeArgs, timeout \in TimeoutArgs :
          Wait(label, t, timeout)
    \/ \E t \in ClockStopArgs : ClockStop(t)

SpecClock == ClockInit /\ [][ClockNext]_vars

-----------------------------------------------------------------------------
(* Scripts with waits on a secondary pseudoclock device whose trigger     *)
(* delay is as long as a clock period.                                     *)

\* The connection table of the script, the trigger delay of its secondary
\* pseudoclock device 9 (3e-10 s) and its minimum recovery time 12.
DelayedDevices ==
    [ScriptDevices EXCEPT ![7].trigger_delay = 9,
                          ![7].minimum_recovery_time = 12]

\* The statements: on the secondary output a1 a value at 45, 54, 57 or 63,
\* or a ramp of 18 from 36, 45 or 54; on the master output a0 a value at
\* 54 or a ramp from 45; waits at 54 and 99; a stop time before the end of
\* the instructions and one after it.
DelayedInstructionArgs(o) ==
    IF o = 11
    THEN {<<t, Scalar(1), "None">> : t \in {45, 54, 57, 63}}
         \cup {<<t, Ramp(t, t + 18, 9, 2, "None"), "None">> :
                  t \in {36, 45, 54}}
    ELSE {<<54, Scalar(1), "None">>,
          <<45, Ramp(45, 63, 9, 2, "None"), "None">>}
DelayedWaitArgs == {<<"w", 54>>, <<"x", 99>>}
DelayedStopArgs == {54, 126}

DelayInit == TableInit({DelayedDevices})

DelayNext ==
    \/ Start
    \/ \E o \in Outputs \ Triggers : \E a \in DelayedInstructionArgs(o) :
          ClockAddInstruction(o, a[1], a[2], a[3])
    \/ \E a \in DelayedWaitArgs, timeout \in TimeoutArgs :
          Wait(a[1], a[2], timeout)
    \/ \E t \in DelayedStopArgs : ClockStop(t)

SpecDelay == DelayInit /\ [][DelayNext]_vars

-----------------------------------------------------------------------------
(* Scripts compiled one after the other in one process: each builds its   *)
(* connection table, runs its statements and ends with                     *)
(* labscript_cleanup().                                                     *)

\* The connection table every script builds, in the order of its
\* constructor calls; parent is the position of the parent in the table.
SessionScript ==
    <<[kind |-> "PseudoclockDevice", name |-> "pcd0", parent |-> 0,
       connection |-> "None"],
      [kind |-> "Pseudoclock", name |-> "pc0", parent |-> 1,
       connection |-> "clock"],
      [kind |-> "ClockLine", name |-> "cl0", parent |-> 2,
       connection |-> "line"],
      [kind |-> "IntermediateDevice", name |-> "id0", parent |-> 3,
       connection |-> "internal"],
      [kind |-> "DigitalOut", name |-> "d0", parent |-> 4,
       connection |-> "port"],
      [kind |-> "AnalogOut", name |-> "a0", parent |-> 4,
       connection |-> "ao0"]>>
\* The statements: d0.go_high(9) and d0.go_low(18), a ramp of a0 from 9
\* to 27 with a period of 9, a wait at 18 and stop(27) or stop(36).
SessionInstructionArgs(kind) ==
    IF kind = "DigitalOut"
    THEN {<<9, Scalar(1), "None">>, <<18, Scalar(0), "None">>}
    ELSE {<<9, Ramp(9, 27, 9, 2, "None"), "None">>}
SessionWaitArgs == {<<"w", 18>>}
SessionStopArgs == {27, 36}

\* The ambient state labscript_cleanup() writes: the names put into the
\* builtins and the attributes of  compiler.
Ambient ==
    [registry |-> registry, inventory |-> inventory,
     start_called |-> start_called, wait_table |-> wait_table,
     master_pseudoclock |-> master_pseudoclock,
     all_pseudoclocks |-> all_pseudoclocks,
     trigger_duration |-> trigger_duration, wait_delay |-> wait_delay,
     shot_properties |-> shot_properties]

\* labscript_cleanup() that leaves the names of the devices in the
\* builtins.
labscript_cleanup_keeping_names(c) ==
    [c EXCEPT !.inventory = <<>>, !.start_called = FALSE,
              !.wait_table = <<>>, !.master_pseudoclock = NoDevice,
              !.all_pseudoclocks = <<>>, !.trigger_duration = 0,
              !.wait_delay = 0, !.shot_properties = FALSE]

\* labscript_cleanup(): the builtins go back to what they were at
\* labscript_init(), where no device name was among them, and the
\* attributes of  compiler  to their defaults.
labscript_cleanup(c) ==
    [c EXCEPT !.registry = {}, !.inventory = <<>>, !.start_called = FALSE,
              !.wait_table = <<>>, !.master_pseudoclock = NoDevice,
              !.all_pseudoclocks = <<>>, !.trigger_duration = 0,
              !.wait_delay = 0, !.shot_properties = FALSE]

\* The next constructor call of the script.
SessionConstruct ==
    /\ Len(inventory) < Len(SessionScript)
    /\ Len(devs) < 2 * Len(SessionScript)
    /\ LET row == SessionScript[Len(inventory) + 1]
       IN Built(construct(Tree, row.kind, row.name,
                          IF row.parent = 0 THEN NoDevice
                          ELSE inventory[row.parent],
                          row.connection))
    /\ op' = "construct"
    /\ args' = <<>>
    /\ UNCHANGED <<compilerVars, programVars, warned, ret, before, calls,
                   starts, stops>>

\* labscript_cleanup(), after which the next script starts, with a shot
\* file of its own: the objects of the script that ended stay as they are,
\* and the statements are counted anew.  A second script is the last one.
Cleanup ==
    /\ Len(devs) <= Len(SessionScript)
    /\ LET c == labscript_cleanup(Ambient)
       IN /\ registry' = c.registry
          /\ inventory' = c.inventory
          /\ start_called' = c.start_called
          /\ wait_table' = c.wait_table
          /\ master_pseudoclock' = c.master_pseudoclock
          /\ all_pseudoclocks' = c.all_pseudoclocks
          /\ trigger_duration' = c.trigger_duration
          /\ wait_delay' = c.wait_delay
          /\ shot_properties' = c.shot_properties
    /\ op' = "cleanup"
    /\ args' = <<>>
    /\ err' = "ok"
    /\ compilation_data' = FALSE
    /\ calls' = 0
    /\ starts' = 0
    /\ stops' = 0
    /\ UNCHANGED <<devs, clockVars, outputVars, programVars, warned, ret,
                   before>>

\* A script builds its table, calls start(), gives its statements and
\* calls stop(); it may end at any point.
SessionNext ==
    \/ ~start_called /\ SessionConstruct
    \/ Len(inventory) = Len(SessionScript) /\ Start
    \/ /\ start_called /\ stops = 0
       /\ \E o \in Outputs \cap Range(inventory) :
             \E a \in SessionInstructionArgs(devs[o].kind) :
                 ClockAddInstruction(o, a[1], a[2], a[3])
    \/ /\ start_called /\ stops = 0
       /\ \E a \in SessionWaitArgs, timeout \in TimeoutArgs :
             Wait(a[1], a[2], timeout)
    \/ start_called /\ \E t \in SessionStopArgs : ClockStop(t)
    \/ Cleanup

SpecSession == TreeInit /\ [][SessionNext]_vars

-----------------------------------------------------------------------------
(* Properties of the instruction model. *)

\* C1: a call of add_instruction made while start() has not been called
\* raises NotStarted and leaves every output's instructions and ramp_limits
\* as they were.
C1_NotStarted ==
    [][op' = "add_instruction" /\ ~start_called
          => /\ err' = "NotStarted"
             /\ instructions' = instructions
             /\ ramp_limits' = ramp_limits]_vars

C1_Witness ==
    op = "add_instruction" /\ err = "NotStarted" /\ ~start_called

\* Whether stop(t) has been called and has set the stop times.
stop_called == \E p \in DOMAIN stop_time : stop_time[p] # <<>>

\* C2: once stop(t) has been called, every call of add_instruction is
\* rejected and leaves the instructions as they were.
C2_RejectedAfterStop ==
    [][op' = "add_instruction" /\ stop_called
          => err' # "ok" /\ instructions' = instructions]_vars


\* C3 as stated: after a compile pass that succeeded, the instructions,
\* ramp_limits, trigger_times and stop_time (= t) are those the pass
\* started from.
C3_CompileMutatesNothing ==
    op = "stop" /\ err = "ok" => Snapshot(World) = before

C3_abs(n) == IF n < 0 THEN -n ELSE n

\* The multiple of r nearest to t.
C3_nearest(t, r) ==
    LET multiples == {r * k : k \in ((t \div r) - 1) .. ((t \div r) + 1)}
    IN CHOOSE m \in multiples :
          \A n \in multiples : C3_abs(t - m) <= C3_abs(t - n)

C3_resolution(d) == devs[pseudoclock_device(d)].clock_resolution
C3_delay(d) ==
    IF is_master_pseudoclock(pseudoclock_device(d)) THEN 0
    ELSE devs[pseudoclock_device(d)].trigger_delay
C3_triggers(d) == before.trigger_times[pseudoclock_device(d)]

\* The shift of a time at or after t: the first trigger plus one trigger
\* delay for every trigger before t.
C3_shift(o, t) ==
    C3_triggers(o)[1]
    + C3_delay(o)
        * Cardinality({i \in DOMAIN C3_triggers(o) : C3_triggers(o)[i] < t})

\* Where the compile pass puts the time u of an instruction that starts
\* at t.
C3_image(o, t, u) == C3_nearest(u - C3_shift(o, t), C3_resolution(o))

\* The instruction times of o that the pass starts from, with t0 and the
\* end of every ramp.
C3_times(o) ==
    Keys(before.instructions[o])
    \cup {C3_triggers(o)[1] + C3_delay(o)}
    \cup {before.instructions[o][i].ins.end :
             i \in {j \in DOMAIN before.instructions[o] :
                       before.instructions[o][j].ins.ramp}}

\* C3, amended: a compile pass that succeeds rewrites the user-visible
\* state in this way only: the instruction times of every output are
\* those it had, t0 and the end of every ramp, each shifted by the trigger
\* offset of its pseudoclock device and quantised to the clock resolution;
\* its ramp_limits are the old intervals shifted and quantised alike; the
\* trigger times and the stop time of every pseudoclock device are the old
\* ones, taken relative to the first trigger and the trigger delays, and
\* quantised.
C3_CompileRewrites ==
    op = "stop" /\ err = "ok" =>
        /\ \A o \in DOMAIN instructions :
              /\ Keys(instructions[o]) =
                    {C3_image(o, t, t) : t \in C3_times(o)}
              /\ ramp_limits[o] =
                    [i \in DOMAIN before.ramp_limits[o] |->
                        <<C3_image(o, before.ramp_limits[o][i][1],
                                   before.ramp_limits[o][i][1]),
                          C3_image(o, before.ramp_limits[o][i][1],
                                   before.ramp_limits[o][i][2])>>]
        /\ \A p \in DOMAIN trigger_times :
              /\ trigger_times[p] =
                    [i \in DOMAIN before.trigger_times[p] |->
                        C3_nearest(before.trigger_times[p][i]
                                     - before.trigger_times[p][1]
                                     - (i - 1) * C3_delay(p),
                                   C3_resolution(p))]
              /\ stop_time[p] =
                    <<C3_nearest(
                        IF is_master_pseudoclock(p)
                        THEN before.stop_time[p][1]
                        ELSE before.stop_time[p][1]
                               - before.trigger_times[p][1]
                               - C3_delay(p) * Len(before.trigger_times[p]),
                        C3_resolution(p))>>

\* A pass that succeeded on a secondary output holding a ramp.
C3_Witness ==
    /\ op = "stop" /\ err = "ok"
    /\ before.ramp_limits[11] # <<>>
    /\ Snapshot(World) # before

\* The t0 of an output, from the trigger times of its pseudoclock device.
C4_t0(o) ==
    IF is_master_pseudoclock(pseudoclock_device(o)) THEN 0
    ELSE trigger_times[pseudoclock_device(o)][1]
           + devs[pseudoclock_device(o)].trigger_delay

\* C4: after start(), a call of add_instruction raises TooEarly exactly
\* when its rounded time is below t0, which is 0 under the master
\* pseudoclock and trigger_times[0] + trigger_delay under a secondary one;
\* a time equal to t0 is not too early.
C4_TooEarly ==
    [][op' = "add_instruction" /\ start_called
          => (err' = "TooEarly"
                <=> round10(args'[2]) < C4_t0(args'[1]))]_vars

\* A call rejected under a secondary pseudoclock device whose first
\* trigger is not at 0, at a time beyond the trigger delay.
C4_Witness ==
    /\ op = "add_instruction" /\ err = "TooEarly"
    /\ ~is_master_pseudoclock(pseudoclock_device(args[1]))
    /\ round10(args[2]) > devs[pseudoclock_device(args[1])].trigger_delay

\* The scalar of a call in base units.
C5_base(instruction, units) ==
    IF units = "None" THEN instruction.value
    ELSE to_base(units, instruction.value)

\* C5: a scalar add_instruction on an output with limits that passes the
\* checks made before the range check (start() called, time not below t0,
\* units convertible) raises OutOfRange exactly when its value in base
\* units is below the minimum or above the maximum, is accepted otherwise
\* (the limits included), and leaves the instructions alone when it raises.
C5_OutOfRange ==
    [][(/\ op' = "add_instruction" /\ start_called
        /\ ~args'[3].ramp
        /\ devs[args'[1]].limits # <<>>
        /\ round10(args'[2]) >= C4_t0(args'[1])
        /\ (args'[4] = "None"
              \/ (devs[args'[1]].calibrated /\ args'[4] \in derived_units)))
       => LET base == C5_base(args'[3], args'[4])
              limits == devs[args'[1]].limits
          IN /\ (err' = "OutOfRange")
                  <=> (base < limits[1] \/ base > limits[2])
             /\ (err' = "OutOfRange") => (instructions' = instructions)
             /\ (err' # "OutOfRange") =>
                   (/\ err' = "ok"
                    /\ Get(instructions'[args'[1]], round10(args'[2])).value
                          = base)]_vars

\* A value that is inside the limits as given and outside them once
\* converted.
C5_Witness ==
    /\ op = "add_instruction" /\ err = "OutOfRange"
    /\ args[4] # "None"
    /\ ~outside_limits(devs[args[1]].limits, args[3].value)

\* C6: the intervals of an output's ramp_limits never share an interior
\* point.
C6_RampLimitsDisjoint ==
    \A o \in DOMAIN ramp_limits :
        \A i, j \in DOMAIN ramp_limits[o] :
            i # j =>
                ~(Max({ramp_limits[o][i][1], ramp_limits[o][j][1]})
                    < Min({ramp_limits[o][i][2], ramp_limits[o][j][2]}))

\* C7: when an output holds a ramp from s to e and a scalar instruction at
\* a time strictly between them as the compile pass starts, the pass
\* fails with RampOverlap.
C7_ScalarInsideRampFails ==
    op = "stop" /\ args # <<0>> =>
        ((\E o \in DOMAIN before.instructions :
            \E i, j \in DOMAIN before.instructions[o] :
                /\ before.instructions[o][i].ins.ramp
                /\ ~before.instructions[o][j].ins.ramp
                /\ before.instructions[o][i].t < before.instructions[o][j].t
                /\ before.instructions[o][j].t
                      < before.instructions[o][i].ins.end)
         => err = "RampOverlap")

\* C8: a call of add_instruction at a time that is already a key of the
\* output's instructions, and that raises nothing, writes the warning,
\* leaves the set (and the number) of instruction times as it was and
\* makes the instruction at that time the new one.
C8_Overwrite ==
    [][(/\ op' = "add_instruction" /\ err' = "ok"
        /\ round10(args'[2]) \in Keys(instructions[args'[1]]))
       => LET o == args'[1]
              stored == Get(instructions'[o], round10(args'[2]))
          IN /\ warned'
             /\ Keys(instructions'[o]) = Keys(instructions[o])
             /\ Len(instructions'[o]) = Len(instructions[o])
             /\ stored.ramp = args'[3].ramp
             /\ stored.value =
                   (IF args'[3].ramp THEN args'[3].value
                    ELSE C5_base(args'[3], args'[4]))
             /\ args'[3].ramp => stored.end = round10(args'[3].end)]_vars

\* A ramp written over the only instruction of its output.
C8_Witness ==
    /\ op = "add_instruction" /\ err = "ok" /\ warned
    /\ Len(instructions[args[1]]) = 1
    /\ instructions[args[1]][1].ins.ramp

-----------------------------------------------------------------------------
(* Properties of the device tree. *)

\* Whether the kind of child is among the allowed children of parent.
C9_allowed(parent, child) ==
    \E class \in allowed_children(devs[parent].kind) :
        isinstance(child, class)

\* C9 as stated: add_device with a child whose kind the parent does not
\* allow raises KindMismatch and leaves the parent's child list as it was.
C9_KindMismatch ==
    [][op' = "add_device" /\ ~C9_allowed(args'[1], args'[2])
          => /\ err' = "KindMismatch"
             /\ devs'[args'[1]].child_devices
                   = devs[args'[1]].child_devices]_vars

\* Every node of a child list is of a kind its parent allows.
C9_ChildrenAllowed ==
    \A parent \in Devices :
        \A i \in DOMAIN devs[parent].child_devices :
            C9_allowed(parent, devs[parent].child_devices[i])

\* C9, amended: add_device with a child whose kind the parent does not
\* allow raises and leaves the parent's child list as it was; the error is
\* KindMismatch, unless the parent is a Trigger and the child's connection
\* is not 'trigger', which Trigger.add_device reports first; a constructor
\* that raises KindMismatch leaves the tree as it was; and every node of a
\* child list is of a kind its parent allows.
C9_KindMismatchAfterConnection ==
    /\ []C9_ChildrenAllowed
    /\ [][/\ (op' = "add_device" /\ ~C9_allowed(args'[1], args'[2]))
             => /\ err' =
                     (IF isinstance(args'[1], "Trigger")
                         /\ devs[args'[2]].connection # "trigger"
                      THEN "BadTriggerConnection"
                      ELSE "KindMismatch")
                /\ devs'[args'[1]].child_devices
                      = devs[args'[1]].child_devices
          /\ (op' = "construct" /\ err' = "KindMismatch")
             => devs' = devs]_vars

\* A child of the wrong kind refused by a parent that holds a child.
C9_Witness ==
    /\ op = "add_device" /\ err = "KindMismatch"
    /\ devs[args[1]].child_devices # <<>>

\* C10: pseudoclock_device returns a PseudoclockDevice or raises
\* NoPseudoclock; it never returns None.
C10_NeverNone ==
    op = "pseudoclock_device" =>
        \/ err = "NoPseudoclock"
        \/ ret # NoDevice /\ isinstance(ret, "PseudoclockDevice")

\* No two devices of the inventory have the same name.
C11_UniqueNames ==
    \A i, j \in DOMAIN inventory :
        devs[inventory[i]].name = devs[inventory[j]].name => i = j

\* C11: the names of the devices of the inventory are unique, and a
\* constructor called with a name that is registered already, or with a
\* keyword, raises and puts no device of that name into the inventory.
\* (As the contrapositive: a step that raises nothing, or that puts a
\* device of the name into the inventory, is no such call.)
C11_NamesUnique ==
    /\ []C11_UniqueNames
    /\ [][\A name \in NameArgs :
             (/\ op' = "construct"
              /\ name \in registry \/ name \in kwlist
              /\ \/ err' = "ok"
                 \/ \E d \in Range(inventory') \ Range(inventory) :
                       devs'[d].name = name)
             => \A kind \in KindArgs, parent \in Devices \cup {NoDevice} :
                   \A connection \in ConnectionArgs(parent) :
                       ~Construct(kind, name, parent, connection)]_vars

\* A constructor refused a name that a device of the inventory holds.
C11_Witness ==
    /\ op = "construct" /\ err = "NameClash"
    /\ inventory # <<>>
    /\ C11_UniqueNames

\* The master pseudoclock devices of the inventory.
C12_masters ==
    {d \in Range(inventory) :
        isinstance(d, "PseudoclockDevice") /\ is_master_pseudoclock(d)}

\* The inventory holds at most one master pseudoclock device.
C12_AtMostOneMaster == Cardinality(C12_masters) <= 1

\* C12: a PseudoclockDevice constructed without a trigger device while the
\* inventory holds a master raises MultipleMasters and the inventory stays
\* as it was, so the inventory never holds two masters; and a constructor
\* called with a trigger device returns without an error only if the
\* pseudoclock device that clocks the new device's trigger is a master.
C12_OneMaster ==
    /\ []C12_AtMostOneMaster
    /\ [][op' = "PseudoclockDevice" =>
            /\ (args'[1] = NoDevice /\ C12_masters # {})
               => err' = "MultipleMasters" /\ inventory' = inventory
            /\ (args'[1] # NoDevice /\ err' = "ok")
               => LET trigger == devs'[Len(devs')].parent_device
                      clocking == pseudoclock_device_in(Tree', trigger)
                  IN /\ clocking # NoDevice
                     /\ devs'[clocking].parent_device = NoDevice]_vars

\* A second master refused after a secondary pseudoclock device was
\* accepted.
C12_Witness ==
    /\ op = "PseudoclockDevice" /\ err = "MultipleMasters"
    /\ \E d \in Range(inventory) :
          d > Len(ScriptDevices) /\ isinstance(d, "PseudoclockDevice")

-----------------------------------------------------------------------------
(* Properties of the waits and of the clock program. *)

\* The times of the wait table are unique and so are its labels.
C13_Unique ==
    \A i, j \in DOMAIN wait_table :
        i # j => /\ wait_table[i].t # wait_table[j].t
                 /\ wait_table[i].ins.label # wait_table[j].ins.label

\* The step triggered every pseudoclock: start() was called and each
\* pseudoclock device has one trigger time more.
C13_triggered ==
    /\ start_called
    /\ \A p \in Range(all_pseudoclocks) :
          Len(trigger_times'[p]) = Len(trigger_times[p]) + 1

C13_label_used(label) ==
    \E i \in DOMAIN wait_table : wait_table[i].ins.label = label

compiled == op = "stop" /\ err = "ok"

\* The number of WAIT markers in the clock program of a pseudoclock.
C14_waits(pc) == Cardinality({i \in DOMAIN clock[pc] : clock[pc][i] = WAIT})

\* C14: once a shot has compiled, the clock program of each pseudoclock
\* holds exactly one WAIT marker per entry of the wait table (none for the
\* initial trigger).
C14_OneWaitPerEntry ==
    compiled => \A pc \in DOMAIN clock : C14_waits(pc) = Len(wait_table)

\* The trigger times of the pseudoclock device of pc but the initial one.
C15_trigger_times(pc) == Range(Tail(trigger_times[devs[pc].parent_device]))

\* C15: in the clock program of a compiled shot every WAIT marker is
\* directly followed by a segment that starts at a non-initial trigger
\* time, every segment before the marker starts earlier than that time,
\* and the first segment that starts at a non-initial trigger time is
\* directly preceded by a WAIT marker.
C15_WaitBeforeTrigger ==
    compiled =>
        \A pc \in DOMAIN clock :
            \A i \in DOMAIN clock[pc] :
                /\ clock[pc][i] = WAIT
                      => /\ i < Len(clock[pc])
                         /\ clock[pc][i + 1] # WAIT
                         /\ clock[pc][i + 1].start \in C15_trigger_times(pc)
                         /\ \A j \in 1 .. (i - 1) :
                               clock[pc][j] # WAIT
                                  => clock[pc][j].start
                                        < clock[pc][i + 1].start
                /\ (/\ clock[pc][i] # WAIT
                    /\ clock[pc][i].start \in C15_trigger_times(pc)
                    /\ \A j \in 1 .. (i - 1) :
                          clock[pc][j] # WAIT
                             => clock[pc][j].start # clock[pc][i].start)
                      => i > 1 /\ clock[pc][i - 1] = WAIT

\* A shot compiled with two WAIT markers in a clock program, segments
\* before the first and between the two.
C15_Witness ==
    /\ compiled
    /\ \E pc \in DOMAIN clock :
          \E i, j \in DOMAIN clock[pc] :
              /\ 1 < i /\ i + 1 < j
              /\ clock[pc][i] = WAIT /\ clock[pc][j] = WAIT

\* The pseudoclock that clocks an output.
C16_pseudoclock(o) == devs[parent_clock_line(o)].parent_device

\* C16: once a shot has compiled, every time at which an instruction was
\* given to an output, shifted by the trigger offset and quantised to the
\* clock resolution, is a tick of the output's clockline and the start of
\* a segment of the clock program that enables that clockline.
C16_ChangeConserved ==
    compiled =>
        \A o \in DOMAIN instructions :
            \A t \in Keys(before.instructions[o]) :
                /\ C3_image(o, t, t)
                      \in Range(times[C16_pseudoclock(o)]
                                     [parent_clock_line(o)])
                /\ \E i \in DOMAIN clock[C16_pseudoclock(o)] :
                      LET segment == clock[C16_pseudoclock(o)][i]
                      IN /\ segment # WAIT
                         /\ segment.start = C3_image(o, t, t)
                         /\ parent_clock_line(o)
                               \in Range(segment.enabled_clocks)

\* A shot compiled with a wait, a ramp, and an instruction given to an
\* output of the secondary pseudoclock device for a time that is not
\* before the wait.
C16_Witness ==
    /\ compiled
    /\ wait_table # <<>>
    /\ \E o \in DOMAIN instructions : before.ramp_limits[o] # <<>>
    /\ \E o \in DOMAIN instructions :
          /\ ~is_master_pseudoclock(pseudoclock_device(o))
          /\ \E t \in Keys(before.instructions[o]) :
                \E u \in C15_trigger_times(C16_pseudoclock(o)) : t >= u

C17_on_grid(pc, t) == t % devs[pc].clock_resolution = 0

\* C17: once a shot has compiled, the start and the step of every segment
\* of the clock program of a pseudoclock, and every tick of its
\* clocklines, are integer multiples of its clock resolution.
C17_OnResolutionGrid ==
    compiled =>
        \A pc \in DOMAIN clock :
            /\ \A i \in DOMAIN clock[pc] :
                  clock[pc][i] # WAIT
                     => /\ C17_on_grid(pc, clock[pc][i].start)
                        /\ C17_on_grid(pc, clock[pc][i].step)
            /\ \A clock_line \in DOMAIN times[pc] :
                  \A k \in DOMAIN times[pc][clock_line] :
                      C17_on_grid(pc, times[pc][clock_line][k])

\* C18: once a shot has compiled, two adjacent ticks of a clockline are at
\* least 1/clock_limit of the clockline apart, the last tick of a ramp and
\* the change time after it included.
C18_ClockBound ==
    compiled =>
        \A pc \in DOMAIN times :
            \A clock_line \in DOMAIN times[pc] :
                \A k \in 1 .. (Len(times[pc][clock_line]) - 1) :
                    times[pc][clock_line][k + 1] - times[pc][clock_line][k]
                        >= clock_period(clock_line)

\* A shot compiled with a ramp that another change time breaks: the ramp
\* ticks less than two of its periods before a tick that follows.
C18_Witness ==
    /\ compiled
    /\ \E o \in DOMAIN instructions :
          /\ before.ramp_limits[o] # <<>>
          /\ \E k \in 1 .. (Len(times[C16_pseudoclock(o)]
                                     [parent_clock_line(o)]) - 1) :
                LET ticks == times[C16_pseudoclock(o)][parent_clock_line(o)]
                IN /\ ticks[k] >= before.ramp_limits[o][1][1]
                   /\ ticks[k + 1] <= before.ramp_limits[o][1][2]
                   /\ ticks[k + 1] - ticks[k] > 18
                   /\ ticks[k + 1] - ticks[k] < 36

\* Every output of a pseudoclock was asked for its change times: the
\* compile pass got as far as the checks of collect_change_times.
C19_collected(pc) ==
    \A o \in Range(get_all_outputs(pc)) : o \in DOMAIN output_times

\* Two adjacent times of a sorted list are closer than a period.
C19_closer(list, period) ==
    \E k \in 1 .. (Len(list) - 1) : list[k + 1] - list[k] < period

\* Two adjacent change times of a pseudoclock are closer than its
\* 1/clock_limit, or two adjacent change times of one of its clocklines
\* are closer than 1/clock_limit of the clockline.
C19_gap_missing(pc) ==
    \/ C19_closer(all_change_times(World, pc), clock_period(pc))
    \/ \E clock_line \in Range(clock_lines(pc)) :
          C19_closer(change_time_list(World, pc, clock_line),
                     clock_period(clock_line))

C20_too_soon_before_trigger(o) ==
    \E t \in Keys(before.instructions[o]) :
        \E trigger \in Range(before.trigger_times[pseudoclock_device(o)]) :
            /\ trigger - Max({output_clock_period(o), wait_delay}) <= t
            /\ t < trigger

\* C20: a compile pass fails whenever an instruction of an output lies too
\* soon before a trigger time.
C20_TooSoonBeforeTrigger ==
    (/\ op = "stop" /\ start_called
     /\ \E o \in Outputs \ Triggers : C20_too_soon_before_trigger(o))
        => err # "ok"

-----------------------------------------------------------------------------
(* Properties of the trigger checks and of the trigger offset. *)

\* An instruction given to an output lies after a trigger time of its
\* pseudoclock device and before the trigger delay has passed, or, where
\* closed is asked, at the moment it has passed.
C21_after_trigger(o, closed) ==
    \E t \in Keys(before.instructions[o]) :
        \E trigger \in Range(C3_triggers(o)) :
            /\ trigger < t
            /\ IF closed THEN t <= trigger + C3_delay(o)
               ELSE t < trigger + C3_delay(o)

\* C21, as stated: a compile pass fails whenever an instruction of an
\* output lies in (trigger, trigger + trigger_delay] for a trigger time.
C21_TooSoonUpToDelay ==
    (op = "stop" /\ \E o \in Outputs : C21_after_trigger(o, TRUE))
        => err # "ok"

\* C21: a compile pass fails whenever an instruction of an output lies
\* strictly between a trigger time and that trigger time plus the trigger
\* delay of the output.
C21_TooSoonAfterTrigger ==
    (op = "stop" /\ \E o \in Outputs : C21_after_trigger(o, FALSE))
        => err # "ok"

\* A pass refused an instruction given for a time within the trigger delay
\* after a wait.
C21_Witness ==
    /\ op = "stop" /\ err = "TooSoonAfterTrigger"
    /\ wait_table # <<>>
    /\ \E o \in Outputs : C21_after_trigger(o, FALSE)

\* A ramp given to an output starts before a trigger time of its
\* pseudoclock device and ends after it.
C22_spans(o) ==
    \E i \in DOMAIN before.instructions[o] :
        \E trigger \in Range(C3_triggers(o)) :
            /\ before.instructions[o][i].ins.ramp
            /\ before.instructions[o][i].ins.initial < trigger
            /\ trigger < before.instructions[o][i].ins.end

\* C22: a compile pass fails whenever a ramp of an output spans a trigger
\* time of its pseudoclock device, and fails for a ramp across a trigger
\* only then: a ramp that starts or ends at a trigger time is accepted.
C22_RampAcrossTrigger ==
    op = "stop" =>
        /\ (\E o \in Outputs : C22_spans(o)) => err # "ok"
        /\ err = "RampAcrossTrigger" => \E o \in Outputs : C22_spans(o)

\* A pass refused a ramp that spans a wait.
C22_Witness ==
    /\ op = "stop" /\ err = "RampAcrossTrigger"
    /\ \E o \in Outputs :
          /\ C22_spans(o)
          /\ \E trigger \in Range(Tail(C3_triggers(o))) :
                \E i \in DOMAIN before.instructions[o] :
                    /\ before.instructions[o][i].ins.ramp
                    /\ before.instructions[o][i].ins.initial < trigger
                    /\ trigger < before.instructions[o][i].ins.end

\* The pass offset the instructions of an output: it is the first pass of
\* the script and it went on to ask the output for its change times.
C23_offset(o) == op = "stop" /\ stops = 1 /\ o \in DOMAIN output_times

\* t_effective of an instruction time: the time less the first trigger
\* time and one trigger delay for every trigger time strictly before it,
\* quantised to the clock resolution.
C23_effective(o, t) == C3_image(o, t, t)

-----------------------------------------------------------------------------
(* Properties of stop(). *)

\* The stop time of a pseudoclock device once its instructions are offset:
\* t for the master, t less the first trigger time and one trigger delay
\* for every trigger for a secondary one, quantised.
C24_offset_stop_time(p, t) ==
    C3_nearest(IF is_master_pseudoclock(p) THEN t
               ELSE t - trigger_times[p][1]
                      - devs[p].trigger_delay * Len(trigger_times[p]),
               devs[p].clock_resolution)

\* C24: stop(0) raises ZeroStop and changes nothing: no stop time is set,
\* no shot property is recorded and no compile pass runs.  stop(t) with
\* t # 0 has set the stop time of every pseudoclock device of the
\* inventory to t when the compile pass starts, and the pass leaves it at
\* that or at its offset value.
C24_ZeroStop ==
    [][op' = "stop" =>
          IF args'[1] = 0
          THEN /\ err' = "ZeroStop"
               /\ stop_time' = stop_time
               /\ shot_properties' = shot_properties
               /\ compilation_data' = compilation_data
               /\ instructions' = instructions
               /\ ramp_limits' = ramp_limits
               /\ trigger_times' = trigger_times
               /\ clock' = clock /\ times' = times
               /\ output_times' = output_times
          ELSE /\ shot_properties'
               /\ \A p \in PseudoclockDevices \cap Range(inventory) :
                     /\ before'.stop_time[p] = <<args'[1]>>
                     /\ \/ stop_time'[p] = <<args'[1]>>
                        \/ /\ trigger_times[p] # <<>>
                           /\ stop_time'[p]
                                 = <<C24_offset_stop_time(p, args'[1])>>]_vars

\* stop(0) was refused in a script that had given instructions.
C24_Witness ==
    /\ op = "stop" /\ err = "ZeroStop"
    /\ start_called
    /\ \E o \in DOMAIN instructions : instructions[o] # <<>>
    /\ ~stop_called

\* The pseudoclocks of the connection table.
C25_pseudoclocks == {d \in Devices : isinstance(d, "Pseudoclock")}

\* An output of a pseudoclock holds an instruction at a time later than
\* the stop time, both as the compile pass has offset them.
C25_after_stop(pc) ==
    \E o \in Range(get_all_outputs(pc)) :
        \E t \in Keys(instructions[o]) :
            t > stop_time[devs[pc].parent_device][1]

\* The errors of the steps of generate_clock that come before the last
\* change time is looked at: the gap checks of collect_change_times and
\* the checks of a ramp in expand_change_times.
C25_earlier_errors ==
    {"ClockLimitExceeded", "AttributeError", "ZeroDivisionError",
     "IndexError"}

\* C25, as stated: when an output of a pseudoclock has an instruction
\* later than the stop time, the pass fails with InstructionsAfterStop
\* and the pseudoclock gets no clock program.
C25_FailsWithInstructionsAfterStop ==
    \A pc \in C25_pseudoclocks :
        (/\ op = "stop" /\ stops = 1
         /\ C19_collected(pc)
         /\ C25_after_stop(pc))
            => err = "InstructionsAfterStop" /\ pc \notin DOMAIN clock

\* C25: when an output of a pseudoclock has an instruction later than the
\* stop time, the first compile pass fails and the pseudoclock gets no
\* clock program; the error is InstructionsAfterStop unless an earlier
\* step of generate_clock raises.  A clock program that is produced ends
\* with a segment that starts at the stop time, with reps = 1,
\* step = 10/clock_limit and every clockline of the pseudoclock enabled,
\* and no instruction of the pseudoclock is later than the stop time.
C25_InstructionsAfterStop ==
    \A pc \in C25_pseudoclocks :
        (op = "stop" /\ stops = 1) =>
            /\ (C19_collected(pc) /\ C25_after_stop(pc))
                  => /\ err \in {"InstructionsAfterStop"}
                                  \cup C25_earlier_errors
                     /\ pc \notin DOMAIN clock
            /\ pc \in DOMAIN clock
                  => /\ ~C25_after_stop(pc)
                     /\ clock[pc][Len(clock[pc])]
                           = [wait |-> FALSE,
                              start |-> stop_time[devs[pc].parent_device][1],
                              reps |-> 1,
                              step |-> 10 * devs[pc].clock_period,
                              enabled_clocks |-> clock_lines(pc)]

\* A pass failed with InstructionsAfterStop on a pseudoclock one of whose
\* outputs holds an instruction later than the stop time, after another
\* pseudoclock got its clock program.
C25_Witness ==
    /\ op = "stop" /\ stops = 1 /\ err = "InstructionsAfterStop"
    /\ \E pc \in C25_pseudoclocks :
          C19_collected(pc) /\ C25_after_stop(pc)

-----------------------------------------------------------------------------
(* Properties of the errors. *)

\* The kinds of LabscriptError the calls of a script raise.
C26_LabscriptError ==
    {"NotStarted", "TooEarly", "NoClockLine", "NoRamping", "RampOverlap",
     "NegativeDuration", "BadRate", "NoCalibration", "UnknownUnits",
     "OutOfRange", "TriggerOverlap", "NoWaitName", "TimeClash", "NameClash",
     "AlreadyStarted", "MasterInitialTime", "MultipleMasters",
     "NoToplevelDevices", "RampAcrossTrigger", "TooSoonAfterTrigger",
     "ClockLimitExceeded", "InstructionsAfterStop", "TriggerMismatch",
     "ZeroStop"}

\* C26: a call of add_instruction, wait, start or stop that is rejected
\* raises a LabscriptError, never an error of another kind.
C26_SingleErrorKind ==
    op \in {"add_instruction", "wait", "start", "stop"}
        => err \in C26_LabscriptError \cup {"ok"}

-----------------------------------------------------------------------------
(* Properties of labscript_cleanup(). *)

\* The script that ended left objects behind, and this is the next script.
C27_second_script == Len(devs) > Len(inventory)

-----------------------------------------------------------------------------
(* Properties of the clock program around ramps. *)

\* The ramps (s, e) of the outputs of a clockline.
C28_ramps(pc, clock_line) ==
    UNION {Range(ramp_limits[o]) :
              o \in Range(outputs_by_clockline(pc, clock_line))}

\* The indices of the ticks of a clockline strictly inside (s, e).
C28_ticks_inside(pc, clock_line, s, e) ==
    {k \in DOMAIN times[pc][clock_line] :
        s < times[pc][clock_line][k] /\ times[pc][clock_line][k] < e}

\* The clock program has a segment that starts at t and enables the
\* clockline.
C28_split_at(pc, clock_line, t) ==
    \E i \in DOMAIN clock[pc] :
        /\ clock[pc][i] # WAIT
        /\ clock[pc][i].start = t
        /\ clock_line \in Range(clock[pc][i].enabled_clocks)

\* A clockline without a ramp whose only change time inside (s, e) is t.
C28_only_event(pc, clock_line, s, e, t) ==
    /\ C28_ramps(pc, clock_line) = {}
    /\ {u \in Range(change_times(World, pc, clock_line)) : s < u /\ u < e}
          = {t}

\* C28: once the first stop() has compiled the shot, for each ramp (s, e)
\* on a clockline C and every change time t of the pseudoclock (of any
\* output on any clockline, the stop time and the trigger times) with
\* s < t < e, C ticks at t and a segment of the clock program starts at t
\* and enables C; and a clockline B without ramps whose only change time
\* inside (s, e) is t ticks exactly once inside (s, e), at t.
C28_CrossClocklineBreak ==
    compiled /\ stops = 1 =>
        \A pc \in DOMAIN clock :
            \A C \in Range(clock_lines(pc)) :
                \A ramp \in C28_ramps(pc, C) :
                    \A t \in Range(all_change_times(World, pc)) :
                        ramp[1] < t /\ t < ramp[2] =>
                            /\ t \in Range(times[pc][C])
                            /\ C28_split_at(pc, C, t)
                            /\ \A B \in Range(clock_lines(pc)) :
                                  C28_only_event(pc, B, ramp[1], ramp[2], t)
                                  => \E k \in DOMAIN times[pc][B] :
                                        /\ times[pc][B][k] = t
                                        /\ C28_ticks_inside(pc, B, ramp[1],
                                                            ramp[2]) = {k}

\* A shot compiled with a ramp on one clockline and, strictly inside it,
\* the only instruction of an output of another clockline that has no
\* ramp: the ramp ticks before and after that time as well.
C28_Witness ==
    /\ compiled /\ stops = 1
    /\ \E pc \in DOMAIN clock :
          \E C \in Range(clock_lines(pc)), B \in Range(clock_lines(pc)) :
              \E ramp \in C28_ramps(pc, C) :
                  \E t \in Range(all_change_times(World, pc)) :
                      /\ ramp[1] < t /\ t < ramp[2]
                      /\ B # C
                      /\ C28_only_event(pc, B, ramp[1], ramp[2], t)
                      /\ \E o \in Range(outputs_by_clockline(pc, B)) :
                            t \in Keys(before.instructions[o])
                      /\ \E k \in DOMAIN times[pc][C] :
                            /\ ramp[1] <= times[pc][C][k]
                            /\ times[pc][C][k] < t
                      /\ Cardinality(C28_ticks_inside(pc, C, ramp[1],
                                                      ramp[2])) >= 1

\* The clocklines of a pseudoclock that have a change time at t.
C29_enabled(pc, t) ==
    {clock_line \in Range(clock_lines(pc)) :
        t \in Range(change_times(World, pc, clock_line))}

\* Those among them that have an output with a ramp instruction that
\* started by t and has not ended.
C29_looping(pc, t) ==
    {clock_line \in C29_enabled(pc, t) :
        \E o \in Range(outputs_by_clockline(pc, clock_line)) :
            \E k \in DOMAIN instructions[o] :
                /\ instructions[o][k].ins.ramp
                /\ instructions[o][k].t <= t
                /\ t < instructions[o][k].ins.end}

\* The indices of the segments of the clock program that start in
\* [from, to).
C29_segments(pc, from, to) ==
    {i \in DOMAIN clock[pc] :
        /\ clock[pc][i] # WAIT
        /\ from <= clock[pc][i].start /\ clock[pc][i].start < to}

\* The number of ticks of a clockline in [from, to).
C29_ticks(pc, clock_line, from, to) ==
    Cardinality({k \in DOMAIN times[pc][clock_line] :
                    /\ from <= times[pc][clock_line][k]
                    /\ times[pc][clock_line][k] < to})

\* The segments of the interval [t, next) of a ramp that ticks n_ticks
\* times there are as expand_change_times emits them.
C29_emitted(pc, t, next, n_ticks) ==
    LET first == C29_segments(pc, t, t + 1)
        later == C29_segments(pc, t + 1, next)
    IN /\ Cardinality(first) = 1
       /\ \A i \in first :
             /\ clock[pc][i].reps = 1
             /\ Range(clock[pc][i].enabled_clocks) = C29_enabled(pc, t)
       /\ \A i \in later :
             Range(clock[pc][i].enabled_clocks) = C29_looping(pc, t)
       /\ Cardinality(later) =
             (IF n_ticks >= 3 THEN 2 ELSE IF n_ticks = 2 THEN 1 ELSE 0)
       /\ n_ticks >= 3 =>
             /\ \E i \in later : clock[pc][i].reps = n_ticks - 2
             /\ \E i \in later :
                   /\ clock[pc][i].reps = 1
                   /\ \A j \in later : clock[pc][j].start <= clock[pc][i].start
       /\ n_ticks = 2 => \A i \in later : clock[pc][i].reps = 1
       /\ \A clock_line \in C29_looping(pc, t) :
             C29_ticks(pc, clock_line, t, next) = n_ticks
       /\ \A clock_line \in C29_enabled(pc, t) \ C29_looping(pc, t) :
             C29_ticks(pc, clock_line, t, next) = 1

\* C29: once the first stop() has compiled the shot, in the interval from
\* a change time t at which an enabled clockline ramps to the next change
\* time, the clock program has one segment that starts at t, with reps = 1
\* and all the clocklines enabled that have a change time at t; every
\* later segment of the interval (the one with reps = n_ticks - 2 and the
\* final one with reps = 1 if the ramp ticks n_ticks >= 3 times, the final
\* one alone if it ticks twice, none if it ticks once) enables exactly the
\* ramping clocklines; a ramping clockline ticks n_ticks times in the
\* interval and any other enabled clockline once.
C29_RampSegments ==
    compiled /\ stops = 1 =>
        \A pc \in DOMAIN clock :
            LET all == all_change_times(World, pc)
            IN \A k \in 1 .. (Len(all) - 1) :
                  C29_looping(pc, all[k]) # {} =>
                      \E n_ticks \in 1 .. (all[k + 1] - all[k]) :
                          C29_emitted(pc, all[k], all[k + 1], n_ticks)

\* A shot compiled with a ramp that ticks three times or more between two
\* change times, and at its first tick a change time of a clockline that
\* does not ramp.
C29_Witness ==
    /\ compiled /\ stops = 1
    /\ \E pc \in DOMAIN clock :
          LET all == all_change_times(World, pc)
          IN \E k \in 1 .. (Len(all) - 1) :
                /\ C29_looping(pc, all[k]) # {}
                /\ C29_enabled(pc, all[k]) \ C29_looping(pc, all[k]) # {}
                /\ \E clock_line \in C29_looping(pc, all[k]) :
                      C29_ticks(pc, clock_line, all[k], all[k + 1]) >= 3

-----------------------------------------------------------------------------
(* Properties of the values of the outputs. *)

\* The ticks of the clockline of an output.
C30_ticks(o) == times[C16_pseudoclock(o)][parent_clock_line(o)]

\* The instruction of an output in force at a time: the one with the
\* greatest instruction time that is not after it.
C30_active(o, u) ==
    Get(instructions[o], Max({t \in Keys(instructions[o]) : t <= u}))

\* The script gave a digital output go_high(9) and go_low(18) and nothing
\* else.
C30_high_then_low(d) ==
    /\ isinstance(d, "DigitalOut")
    /\ Keys(before.instructions[d]) = {9, 18}
    /\ Get(before.instructions[d], 9) = Scalar(1)
    /\ Get(before.instructions[d], 18) = Scalar(0)

\* The value of the sample of an output at index k is v.
C30_sample(o, k, v) == ~raw_output[o][k].ramp /\ raw_output[o][k].value = v

\* C30: once the first stop() has compiled the shot, every output has one
\* sample for each tick of its clockline, which is the instruction of the
\* output with the greatest instruction time that is not after the tick,
\* every change time of the clockline being a tick; and for a digital
\* output with go_high(9), go_low(18) and stop(t3), the samples at the
\* ticks 0, 9, 18 and t3 are 0, 1, 0 and 0.
C30_ActiveInstruction ==
    compiled /\ stops = 1 =>
        \A o \in Outputs \cap Range(inventory) :
            /\ o \in DOMAIN raw_output
            /\ Len(raw_output[o]) = Len(C30_ticks(o))
            /\ \A k \in DOMAIN C30_ticks(o) :
                  /\ \E t \in Keys(instructions[o]) : t <= C30_ticks(o)[k]
                  /\ raw_output[o][k] = C30_active(o, C30_ticks(o)[k])
            /\ Range(change_times(World, C16_pseudoclock(o),
                                  parent_clock_line(o)))
                  \subseteq Range(C30_ticks(o))
            /\ C30_high_then_low(o) =>
                  \E k0, k1, k2, k3 \in DOMAIN C30_ticks(o) :
                      /\ C30_ticks(o)[k0] = 0 /\ C30_sample(o, k0, 0)
                      /\ C30_ticks(o)[k1] = 9 /\ C30_sample(o, k1, 1)
                      /\ C30_ticks(o)[k2] = 18 /\ C30_sample(o, k2, 0)
                      /\ C30_ticks(o)[k3] = args[1] /\ C30_sample(o, k3, 0)

\* A shot compiled from go_high(9), go_low(18) and stop(27) on a digital
\* output, whose clockline ticks at 0, 9, 18 and 27 and whose samples are
\* 0, 1, 0, 0, with a ramp from 9 to 27 on the analog output of the same
\* clockline, whose samples at 9 and 18 are taken from the ramp.
C30_Witness ==
    /\ compiled /\ stops = 1 /\ args = <<27>>
    /\ \E d \in Outputs \cap Range(inventory) :
          /\ C30_high_then_low(d)
          /\ C30_ticks(d) = <<0, 9, 18, 27>>
          /\ \A k \in 1 .. 4 : C30_sample(d, k, <<0, 1, 0, 0>>[k])
    /\ \E a \in Outputs \cap Range(inventory) :
          /\ Len(raw_output[a]) = 4
          /\ raw_output[a][2].ramp /\ raw_output[a][3].ramp
          /\ ~raw_output[a][4].ramp

-----------------------------------------------------------------------------
(* Properties of the stop time of a secondary pseudoclock device. *)

\* The first stop() has offset the instructions of a pseudoclock device:
\* its pass has asked an output of the device for its change times.
C31_offset(p) ==
    /\ op = "stop" /\ stops = 1
    /\ \E o \in Range(get_all_outputs(p)) : o \in DOMAIN output_times

\* The triggers of a pseudoclock device that precede the time t, as the
\* pass found them.
C31_triggers_before(p, t) ==
    {i \in DOMAIN before.trigger_times[p] : before.trigger_times[p][i] < t}

\* C31: once the first stop() has offset the instructions of a pseudoclock
\* device, the stop time of a secondary one is the stop time given, less
\* its first trigger time and one trigger delay for each of its triggers
\* that precede the stop time, quantised, which is where an instruction of
\* one of its outputs at the stop time is put; the stop time of the master
\* is the one given, quantised.
C31_StopTimeOffset ==
    \A p \in PseudoclockDevices \cap Range(inventory) :
        C31_offset(p) =>
            LET t == before.stop_time[p][1]
            IN IF is_master_pseudoclock(p)
               THEN stop_time[p] = <<C3_nearest(t, devs[p].clock_resolution)>>
               ELSE /\ stop_time[p] =
                          <<C3_nearest(
                               t - before.trigger_times[p][1]
                                 - devs[p].trigger_delay
                                     * Cardinality(C31_triggers_before(p, t)),
                               devs[p].clock_resolution)>>
                    /\ \A o \in Range(get_all_outputs(p)) :
                          stop_time[p] = <<C3_image(o, t, t)>>

\* A shot compiled with a wait: the stop time of the secondary pseudoclock
\* device, whose trigger delay is not zero, is two trigger delays less
\* than the stop time given.
C31_Witness ==
    /\ compiled /\ stops = 1
    /\ \E p \in PseudoclockDevices \cap Range(inventory) :
          /\ ~is_master_pseudoclock(p)
          /\ C31_offset(p)
          /\ devs[p].trigger_delay > 0
          /\ Len(before.trigger_times[p]) = 2
          /\ before.stop_time[p][1] - stop_time[p][1]
                >= 2 * devs[p].trigger_delay

-----------------------------------------------------------------------------
(* Properties of the triggers of start() and wait(). *)

\* The time at which the call made last triggers a pseudoclock device: its
\* initial trigger time for start(), the time of the wait for wait().
C32_trigger_time(p) ==
    IF op' = "start" THEN initial_trigger_time[p] ELSE round10(args'[2])

\* The trigger line of a secondary pseudoclock device carries a pulse that
\* is asserted at t and de-asserted trigger_duration later.
C32_pulsed(p, t) ==
    LET tr == devs[p].parent_device
    IN /\ t \in Keys(instructions'[tr])
       /\ Get(instructions'[tr], t) = Scalar(1)
       /\ round10(t + trigger_duration') \in Keys(instructions'[tr])
       /\ Get(instructions'[tr], round10(t + trigger_duration')) = Scalar(0)
       /\ <<t, trigger_duration'>> \in Range(triggerings'[tr])

-----------------------------------------------------------------------------
(* Properties of the calls that fail. *)

\* C33: a call of add_instruction that fails, whatever the error, leaves
\* the instructions and the ramp_limits of every output as they were.
C33_AtomicOnFailure ==
    [][op' = "add_instruction" /\ err' # "ok"
          => instructions' = instructions /\ ramp_limits' = ramp_limits]_vars

\* C34: as long as stop() has not been called, every (s, e) of the
\* ramp_limits of an output is the ramp stored at instructions[s], whose
\* end time is e, and every ramp stored in instructions has exactly one
\* entry in ramp_limits.
C34_RampLimitsConsistent ==
    ~stop_called =>
        \A o \in DOMAIN instructions :
            /\ \A i \in DOMAIN ramp_limits[o] :
                  /\ ramp_limits[o][i][1] \in Keys(instructions[o])
                  /\ Get(instructions[o], ramp_limits[o][i][1]).ramp
                  /\ Get(instructions[o], ramp_limits[o][i][1]).end
                        = ramp_limits[o][i][2]
            /\ \A k \in DOMAIN instructions[o] :
                  instructions[o][k].ins.ramp =>
                      Cardinality({i \in DOMAIN ramp_limits[o] :
                                      ramp_limits[o][i]
                                          = <<instructions[o][k].t,
                                              instructions[o][k].ins.end>>})
                          = 1

\* C35: a wait() that fails with NameClash or TimeClash leaves the
\* trigger times of every pseudoclock device, the instructions and the
\* triggerings of every trigger line and the wait table as they were.
C35_FailedWaitNoEffect ==
    [][op' = "wait" /\ err' \in {"NameClash", "TimeClash"}
          => /\ trigger_times' = trigger_times
             /\ instructions' = instructions
             /\ triggerings' = triggerings
             /\ wait_table' = wait_table]_vars

-----------------------------------------------------------------------------
(* Properties of the tree after a constructor that failed.                 *)

\* C36: in every reachable state every device that is in the child_devices
\* of some device is in the compiler's inventory and registered under its
\* name, and a constructor that fails leaves the child_devices of every
\* device and the inventory as they were.
C36_TreeInInventory ==
    /\ \A d \in DOMAIN devs : \A c \in Range(devs[d].child_devices) :
          c \in Range(inventory) /\ devs[c].name \in registry
    /\ [][op' = "construct" /\ err' # "ok"
             => /\ inventory' = inventory
                /\ \A d \in DOMAIN devs :
                      devs'[d].child_devices = devs[d].child_devices]_vars

-----------------------------------------------------------------------------
(* Properties of the instructions a compile pass stores.                   *)

\* Two instruction times of o that the offset stores under one key.
C37_clash(o) ==
    \E t, u \in C3_times(o) :
        t # u /\ C23_effective(o, t) = C23_effective(o, u)

\* C37: a compile pass never drops an instruction silently: once it has
\* offset the instructions of an output, the pass fails if two distinct
\* instruction times of the output are quantised to the same multiple of
\* the clock resolution, and otherwise the output holds as many
\* instructions as before the offset.
C37_NoInstructionDropped ==
    \A o \in DOMAIN instructions :
        C23_offset(o) =>
            IF C37_clash(o) THEN err # "ok"
            ELSE Len(instructions[o]) = Cardinality(C3_times(o))

-----------------------------------------------------------------------------
(* Two pseudoclock devices on one trigger line.                            *)

\* The connection table of the script with a second secondary pseudoclock
\* device, pcd2, on the trigger line of the first; pcd2 has a minimum
\* recovery time of 12 and no pseudoclock.
SharedDevices ==
    Append([ScriptDevices EXCEPT ![6].child_devices = <<7, 12>>],
           [DeviceObject("PseudoclockDevice", "pcd2", 6, "trigger") EXCEPT
               !.clock_period = 9, !.clock_resolution = 9,
               !.minimum_recovery_time = 12])

\* The requests: pulses of 9 or 36 at 36 (the end of the initial pulse),
\* 54 and 72.
SharedTriggerArgs == {<<t, duration>> : t \in {36, 54, 72}, duration \in {9, 36}}

SharedInit == TableInit({SharedDevices})

\* device.trigger(t, duration) on a device of a trigger line
RequestTrigger(d, t, duration) ==
    /\ calls < MaxCalls
    /\ start_called
    /\ Commit(TriggerableDevice_trigger(World, d, t, duration))
    /\ op' = "trigger"
    /\ args' = <<d, t, duration>>
    /\ calls' = calls + 1
    /\ UNCHANGED <<treeVars, ret, before, starts, stops>>

SharedNext ==
    \/ Start
    \/ \E d \in {d \in PseudoclockDevices : ~is_master_pseudoclock(d)} :
          \E a \in SharedTriggerArgs : RequestTrigger(d, a[1], a[2])

SpecShared == SharedInit /\ [][SharedNext]_vars

-----------------------------------------------------------------------------
(* Properties of the requests for a trigger.                               *)

\* Another device of the trigger line tr has the request <<t, duration>>
\* on record.
C38_already(tr, d, t, duration) ==
    \E other \in Range(devs[tr].child_devices) \ {d} :
        <<t, duration>> \in Range(requested[other])

\* A triggering of tr, other than <<t, duration>>, that the pulse would
\* overlap.
C38_overlaps(tr, t, duration) ==
    \E i \in DOMAIN triggerings[tr] :
        /\ triggerings[tr][i] # <<t, duration>>
        /\ triggerings_overlap(t, t + duration, triggerings[tr][i][1],
                               triggerings[tr][i][1] + triggerings[tr][i][2])

\* The trigger line tr is as it was.
C38_untouched(tr) ==
    /\ triggerings'[tr] = triggerings[tr]
    /\ instructions'[tr] = instructions[tr]

\* The request d.trigger(t, duration) on the line tr: one that another
\* device has on record creates no triggering, with the outcomes allowed;
\* a new one that returns is pulsed once; one that overlaps another
\* triggering raises TriggerOverlap and adds nothing.
C38_request(tr, d, t, duration, outcomes) ==
    /\ C38_already(tr, d, t, duration)
       => C38_untouched(tr) /\ err' \in outcomes
    /\ ~C38_already(tr, d, t, duration) /\ err' = "ok"
       => triggerings'[tr] = Append(triggerings[tr], <<t, duration>>)
    /\ C38_overlaps(tr, t, duration)
       => /\ err' = "TriggerOverlap"
          /\ C38_untouched(tr)
          /\ requested' = requested
    /\ \A i, j \in DOMAIN triggerings'[tr] :
          triggerings'[tr][i] = triggerings'[tr][j] => i = j

-----------------------------------------------------------------------------
(* Properties of the instructions that do_checks inserts.                  *)

\* The t0 of an output when the pass started.
C39_t0(o) == C3_triggers(o)[1] + C3_delay(o)

\* No other instruction time of o is stored where t is.
C39_alone(o, t) ==
    \A u \in C3_times(o) \ {t} : C23_effective(o, u) # C23_effective(o, t)

\* The ramps the script gave to o.
C39_ramps(o) ==
    {before.instructions[o][i].ins :
        i \in {j \in DOMAIN before.instructions[o] :
                  before.instructions[o][j].ins.ramp}}

\* C39: once do_checks has run on an output in the compile pass (seen
\* after the offset of the instructions, which stores the time t at
\* t_effective), the output has an instruction at its t0, the default
\* value if the script gave none, and an instruction at the end time of
\* every ramp, the last value of the ramp if the script gave none; so the
\* instruction at t0 is the earliest one and no change time of the
\* clockline comes before it.
C39_DefaultsInserted ==
    \A o \in DOMAIN instructions :
        C23_offset(o) =>
            /\ C23_effective(o, C39_t0(o)) \in Keys(instructions[o])
            /\ C39_t0(o) \notin Keys(before.instructions[o])
               /\ C39_alone(o, C39_t0(o))
               => Get(instructions[o], C23_effective(o, C39_t0(o)))
                     = Scalar(devs[o].default_value)
            /\ \A r \in C39_ramps(o) :
                  /\ C23_effective(o, r.end) \in Keys(instructions[o])
                  /\ r.end \notin Keys(before.instructions[o])
                     /\ C39_alone(o, r.end)
                     => Get(instructions[o], C23_effective(o, r.end))
                           = Scalar(r.value)
            /\ \A t \in Keys(instructions[o]) :
                  C23_effective(o, C39_t0(o)) <= t
            /\ compiled =>
                  \A k \in DOMAIN C30_ticks(o) :
                      C23_effective(o, C39_t0(o)) <= C30_ticks(o)[k]

\* A shot compiled with a ramp on the secondary output and nothing else:
\* the default value was inserted at t0 and the last value of the ramp at
\* its end.
C39_Witness ==
    /\ compiled /\ stops = 1
    /\ \E o \in DOMAIN instructions :
          /\ ~is_master_pseudoclock(pseudoclock_device(o))
          /\ Len(before.instructions[o]) = 1
          /\ C39_ramps(o) # {}
          /\ Len(instructions[o]) = 3

-----------------------------------------------------------------------------
(* Scripts that call start() again.                                        *)

\* start(), called after start()
StartAgain ==
    /\ start_called
    /\ starts < MaxStarts + MaxRestarts
    /\ Commit(start(World))
    /\ op' = "start"
    /\ args' = <<>>
    /\ starts' = starts + 1
    /\ UNCHANGED <<treeVars, ret, before, calls, stops>>

RestartNext ==
    \/ Start
    \/ StartAgain
    \/ \E label \in LabelArgs, t \in WaitTimeArgs, timeout \in TimeoutArgs :
          Wait(label, t, timeout)
    \/ \E t \in ClockStopArgs : ClockStop(t)

SpecRestart == ClockInit /\ [][RestartNext]_vars

-----------------------------------------------------------------------------
(* Properties of the initial trigger.                                      *)

\* C40: the initial trigger is issued once: after any call of start() the
\* trigger times of every pseudoclock device are one initial entry (0 for
\* the master) followed by the times of the waits, so a call of start()
\* after the first is rejected or has no effect, and no trigger time but
\* the first lacks an entry of the wait table.
C40_InitialTriggerOnce ==
    [][op' = "start"
          => /\ \A p \in DOMAIN trigger_times' :
                   /\ Len(trigger_times'[p]) <= 1 + Len(wait_table')
                   /\ is_master_pseudoclock(p) /\ trigger_times'[p] # <<>>
                      => trigger_times'[p][1] = 0
             /\ starts > 0
                => trigger_times' = trigger_times /\ triggerings' = triggerings
             /\ starts > 0 /\ err' = "ok"
                => instructions' = instructions]_vars

====
